---- MODULE Spec2Model ----
(***************************************************************************)
(* Model of ImprovedExperimentRunner (src/extractor2000.py): the skip      *)
(* registry, the result cache, the timeout policy, the plan extractor, the *)
(* progress monitor and the execution controller (single experiment and    *)
(* batch).                                                                 *)
(*                                                                         *)
(* Text is modelled as a sequence of lines, a line as a sequence of        *)
(* whitespace-separated tokens ("(" and ")" are tokens of their own), a    *)
(* file or problem name as a sequence of segments, a Python dict as a      *)
(* function whose domain is the set of keys present.                       *)
(*                                                                         *)
(* The clock counts ticks of TimeUnit seconds. The polling loop's sleep    *)
(* advances it by SleepTicks, a GET by 0..GetTicks; the submission POST    *)
(* (at most 60 s) is below the clock's resolution.  SessionSpec follows    *)
(* one polling session more closely: there a poll and its sleep take one   *)
(* tick or less than a tick.                                               *)
(***************************************************************************)
EXTENDS Integers, Sequences, FiniteSets, TLC

\* ------------------------------------------------------------------ bounds
TimeUnit == 1200
GetTicks == 0
SleepTicks == 3
MaxPreexisting == 1
MaxCalls == 2
MaxLines == 2
MaxEarlyPolls == 3
MaxStalls == 1
MaxFaults == 1

\* ------------------------------------------------------- program constants
GlobalDefaultTimeout == 1800
ProgressInterval == 30
EvaluatedDelta == 1000
max_debug_saves == 5
LastPollsKept == 10

None == "None"
EmptyDict == [k \in {} |-> None]

\* dict.get(key, default)
Get(d, k, default) == IF k \in DOMAIN d THEN d[k] ELSE default

\* d[k] = v
Put(d, k, v) == [j \in DOMAIN d \cup {k} |-> IF j = k THEN v ELSE d[j]]

\* `k in s` for strings: k is a contiguous run of segments of s
IsSubstring(k, s) ==
    \E i \in 1..(Len(s) - Len(k) + 1) : SubSeq(s, i, i + Len(k) - 1) = k

\* ------------------------------------------------------------------- names
Instance(n) == <<"instance-">> \o n \o <<".pddl">>
Problema(n, level) == <<"problema_">> \o n \o <<"_", level, ".pddl">>

\* problem.replace('.pddl', '')
StripPddl(problem) == SelectSeq(problem, LAMBDA seg : seg # ".pddl")

planners == <<"lama-first", "dual-bfws-ffparser", "delfi", "optic">>

blacklist ==
    { <<"lama-first", "barman", Instance(<<"1", "5">>)>>,
      <<"dual-bfws-ffparser", "barman", Instance(<<"3">>)>>,
      <<"dual-bfws-ffparser", "barman", Instance(<<"7">>)>>,
      <<"dual-bfws-ffparser", "barman", Instance(<<"1", "2">>)>>,
      <<"dual-bfws-ffparser", "barman", Instance(<<"1", "5">>)>>,
      <<"optic", "barman", Instance(<<"1">>)>>,
      <<"optic", "barman", Instance(<<"2">>)>>,
      <<"optic", "barman", Instance(<<"3">>)>>,
      <<"optic", "barman", Instance(<<"5">>)>>,
      <<"optic", "barman", Instance(<<"7">>)>>,
      <<"optic", "barman", Instance(<<"1", "0">>)>>,
      <<"optic", "barman", Instance(<<"1", "2">>)>>,
      <<"optic", "barman", Instance(<<"1", "5">>)>>,
      <<"delfi", "barman", Instance(<<"1">>)>>,
      <<"delfi", "barman", Instance(<<"2">>)>>,
      <<"delfi", "barman", Instance(<<"3">>)>>,
      <<"delfi", "barman", Instance(<<"5">>)>>,
      <<"delfi", "barman", Instance(<<"7">>)>>,
      <<"delfi", "barman", Instance(<<"1", "0">>)>>,
      <<"delfi", "barman", Instance(<<"1", "2">>)>>,
      <<"delfi", "barman", Instance(<<"1", "5">>)>>,
      <<"optic", "blocksworld", Problema(<<"0", "8">>, "dificil")>>,
      <<"delfi", "blocksworld", Problema(<<"0", "5">>, "medio")>>,
      <<"delfi", "blocksworld", Problema(<<"0", "6">>, "medio")>>,
      <<"delfi", "blocksworld", Problema(<<"0", "9">>, "dificil")>> }

\* planner -> the table's entries in declaration order, <<pattern, seconds>>
extended_timeouts ==
    [p \in {"lama-first", "dual-bfws-ffparser", "delfi", "optic"} |->
       CASE p = "lama-first" ->
              << <<<<"dificil">>, 3600>>,
                 <<<<"LOGISTICS-", "5">>, 3600>>, <<<<"LOGISTICS-", "7">>, 3600>>,
                 <<<<"LOGISTICS-", "8">>, 3600>>, <<<<"LOGISTICS-", "9">>, 3600>>,
                 <<<<"instance-", "3">>, 3600>>, <<<<"instance-", "5">>, 3600>>,
                 <<<<"facil">>, 3600>>, <<<<"medio">>, 3600>>,
                 <<<<"default">>, 3600>> >>
         [] p = "dual-bfws-ffparser" ->
              << <<<<"dificil">>, 3600>>,
                 <<<<"LOGISTICS-", "5">>, 3600>>, <<<<"LOGISTICS-", "7">>, 3600>>,
                 <<<<"LOGISTICS-", "8">>, 3600>>, <<<<"LOGISTICS-", "9">>, 3600>>,
                 <<<<"instance-", "1">>, 3600>>, <<<<"instance-", "2">>, 3600>>,
                 <<<<"instance-", "5">>, 3600>>,
                 <<<<"facil">>, 3600>>, <<<<"medio">>, 3600>>,
                 <<<<"default">>, 3600>> >>
         [] p = "delfi" ->
              << <<<<"dificil">>, 10800>>,
                 <<<<"LOGISTICS-", "5">>, 7200>>, <<<<"LOGISTICS-", "7">>, 9000>>,
                 <<<<"LOGISTICS-", "8">>, 10800>>, <<<<"LOGISTICS-", "9">>, 10800>>,
                 <<<<"instance-", "3">>, 7200>>, <<<<"instance-", "5">>, 9000>>,
                 <<<<"facil">>, 5400>>, <<<<"medio">>, 7200>>,
                 <<<<"default">>, 7200>> >>
         [] OTHER ->
              << <<<<"facil">>, 720>>, <<<<"medio">>, 900>>,
                 <<<<"LOGISTICS-", "4">>, 840>>, <<<<"LOGISTICS-", "5">>, 960>>,
                 <<<<"LOGISTICS-", "7">>, 1080>>,
                 <<<<"instance-", "1">>, 720>>, <<<<"instance-", "2">>, 840>>,
                 <<<<"default">>, 840>> >> ]

domain_actions ==
    [d \in {"blocksworld", "barman", "logistics"} |->
       CASE d = "blocksworld" -> <<"pick-up", "put-down", "stack", "unstack">>
         [] d = "barman" ->
              <<"grasp", "leave", "fill-shot", "refill-shot", "empty-shot",
                "clean-shot", "pour-shot-to-clean-shaker", "pour-shot-to-used-shaker",
                "empty-shaker", "clean-shaker", "shake", "pour-shaker-to-shot">>
         [] OTHER ->
              <<"load-truck", "load-airplane", "unload-truck", "unload-airplane",
                "drive-truck", "fly-airplane">> ]

\* ------------------------------------------------------------ skip registry
\* the membership test, had it been made on the name without its extension
is_blacklisted_stripped(planner, domain, problem) ==
    <<planner, domain, StripPddl(problem)>> \in blacklist

is_blacklisted(planner, domain, problem) == <<planner, domain, problem>> \in blacklist

\* ----------------------------------------------------------- timeout policy
\* the lookup, had it kept the last matching key instead of returning at the first
get_timeout_last_match(planner, problem) ==
    LET timeouts == Get(extended_timeouts, planner, <<>>)
        hits == {i \in 1..Len(timeouts) : IsSubstring(timeouts[i][1], problem)}
        defaults == {i \in 1..Len(timeouts) : timeouts[i][1] = <<"default">>}
    IN  IF hits # {}
          THEN timeouts[CHOOSE i \in hits : \A j \in hits : i >= j][2]
          ELSE IF defaults # {}
                 THEN timeouts[CHOOSE i \in defaults : TRUE][2]
                 ELSE GlobalDefaultTimeout

get_timeout(planner, problem) ==
    LET timeouts == Get(extended_timeouts, planner, <<>>)
        hits == {i \in 1..Len(timeouts) : IsSubstring(timeouts[i][1], problem)}
        defaults == {i \in 1..Len(timeouts) : timeouts[i][1] = <<"default">>}
    IN  IF hits # {}
          THEN timeouts[CHOOSE i \in hits : \A j \in hits : i <= j][2]
          ELSE IF defaults # {}
                 THEN timeouts[CHOOSE i \in defaults : TRUE][2]
                 ELSE GlobalDefaultTimeout

\* ------------------------------------------------------------ token classes
\* What the regular expressions and str methods of the source see in a token
\* of the model's alphabet.
ActionNames ==
    UNION {{domain_actions[d][i] : i \in 1..Len(domain_actions[d])} : d \in DOMAIN domain_actions}

\* str.lower(): the tokens of the alphabet that carry upper-case letters
UpperLower ==
    [t \in {"PICK-UP", "STACK", "A", "B", "STEP"} |->
       CASE t = "PICK-UP" -> "pick-up" [] t = "STACK" -> "stack"
         [] t = "A" -> "a" [] t = "B" -> "b" [] OTHER -> "step"]

lower(tok) == Get(UpperLower, tok, tok)
LowerSeq(toks) == [i \in 1..Len(toks) |-> lower(toks[i])]

\* tokens containing ':'
ColonTokens == {"length:", "cost:", "time:", "0.000:", "0.001:", "1:", "2:", "h:"}
\* [\d.]+:
TimeStampToks == {"0.000:", "0.001:", "1:", "2:"}
\* \d+:
IntColonToks == {"1:", "2:"}
\* [A-Z\-]+ under re.IGNORECASE
AlphaHyphenToks == ActionNames \cup {"foo", "a", "b", "PICK-UP", "STACK", "A", "B"}
\* [A-Z0-9\-]+ under re.IGNORECASE
AlnumHyphenToks == AlphaHyphenToks \cup {"b1", "1", "2"}

\* (action, token): the action name occurs inside the longer token
ProperSubstrings ==
    { <<"stack", "unstack">>,
      <<"clean-shaker", "pour-shot-to-clean-shaker">>,
      <<"shake", "pour-shot-to-clean-shaker">>, <<"shake", "pour-shot-to-used-shaker">>,
      <<"shake", "empty-shaker">>, <<"shake", "clean-shaker">>,
      <<"shake", "pour-shaker-to-shot">> }
\* (action, token): ... and starts at a word boundary and ends the token
BoundarySuffixes == { <<"clean-shaker", "pour-shot-to-clean-shaker">> }

InSeq(x, seq) == \E i \in 1..Len(seq) : seq[i] = x
IsParen(tok) == tok \in {"(", ")"}

\* `needle in text`, the needle within one line
TextContains(text, needle) == \E i \in 1..Len(text) : IsSubstring(needle, text[i])

\* index of the first token of seq at or after `from` satisfying Stop, or Len(seq) + 1
FirstIndex(seq, from, Stop(_)) ==
    LET hits == {j \in from..Len(seq) : Stop(seq[j])}
    IN  IF hits = {} THEN Len(seq) + 1 ELSE CHOOSE j \in hits : \A k \in hits : j <= k

\* ------------------------------------------------------------ plan extractor
Wrap(action_text) == <<"(">> \o action_text \o <<")">>

\* re.search(rf'\b{action}\s+[^()]+', line_lower): the match, or <<>>
SalvageMatch(line_lower, action) ==
    LET starts == {i \in 1..(Len(line_lower) - 1) :
                      /\ \/ line_lower[i] = action
                         \/ <<action, line_lower[i]>> \in BoundarySuffixes
                      /\ ~IsParen(line_lower[i + 1])}
    IN  IF starts = {} THEN <<>>
        ELSE LET i == CHOOSE s \in starts : \A t \in starts : s <= t
                 stop == FirstIndex(line_lower, i + 1, IsParen)
             IN  <<action>> \o SubSeq(line_lower, i + 1, stop - 1)

\* lines 622-647: one line inside the plan section; the actions it appends
DelfiLine(line, valid_actions) ==
    IF line = <<>> \/ line[1] = ";" \/ (\E i \in 1..Len(line) : line[i] \in ColonTokens)
      THEN <<>>
      ELSE IF line[1] = "(" /\ line[Len(line)] = ")"
        THEN LET action_parts == LowerSeq(SubSeq(line, 2, Len(line) - 1))
             IN  IF action_parts # <<>> /\ InSeq(action_parts[1], valid_actions)
                   THEN <<Wrap(action_parts)>>
                   ELSE <<>>
        ELSE LET line_lower == LowerSeq(line)
                 InLine(a) == \E i \in 1..Len(line_lower) :
                                 \/ line_lower[i] = a
                                 \/ <<a, line_lower[i]>> \in ProperSubstrings
                 found == {k \in 1..Len(valid_actions) :
                              /\ InLine(valid_actions[k])
                              /\ SalvageMatch(line_lower, valid_actions[k]) # <<>>}
             IN  IF found = {} THEN <<>>
                 ELSE LET k == CHOOSE a \in found : \A b \in found : a <= b
                      IN  <<Wrap(SalvageMatch(line_lower, valid_actions[k]))>>

IsMarkerLine(line) ==
    \/ IsSubstring(<<"Solution", "found!">>, line) \/ IsSubstring(<<"Plan", "length:">>, line)
    \/ IsSubstring(<<"Plan", "cost:">>, line) \/ IsSubstring(<<"Actual", "search", "time:">>, line)

\* lines 610-647: the loop over the lines, from line i on
RECURSIVE DelfiScan(_, _, _, _)
DelfiScan(lines, i, in_plan_section, valid_actions) ==
    IF i > Len(lines) THEN <<>>
    ELSE IF IsMarkerLine(lines[i]) THEN DelfiScan(lines, i + 1, TRUE, valid_actions)
    ELSE IF in_plan_section
      THEN DelfiLine(lines[i], valid_actions) \o DelfiScan(lines, i + 1, TRUE, valid_actions)
      ELSE DelfiScan(lines, i + 1, FALSE, valid_actions)

\* the group captured by each of the four generic patterns, or <<>> (no match)
BetweenParens(line, open) ==
    LET close == FirstIndex(line, open + 1, LAMBDA t : t = ")")
    IN  IF Len(line) > open /\ line[open] = "(" /\ close <= Len(line) /\ close > open + 1
          THEN SubSeq(line, open + 1, close - 1)
          ELSE <<>>

PatternStandard(line) ==
    IF line # <<>> /\ FirstIndex(line, 1, LAMBDA t : t = ")") = Len(line)
      THEN BetweenParens(line, 1)
      ELSE <<>>

PatternTemporal(line) ==
    IF line # <<>> /\ line[1] \in TimeStampToks THEN BetweenParens(line, 2) ELSE <<>>

PatternNumbered(line) ==
    IF line # <<>> /\ line[1] \in IntColonToks THEN BetweenParens(line, 2) ELSE <<>>

PatternStep(line) ==
    IF /\ Len(line) >= 3
       /\ lower(line[1]) = "step"
       /\ line[2] \in IntColonToks
       /\ line[3] \in AlphaHyphenToks
      THEN SubSeq(line, 3, FirstIndex(line, 4, LAMBDA t : t \notin AlnumHyphenToks) - 1)
      ELSE <<>>

\* one line against the patterns, had the captured text not been tested against the
\* valid actions
GenericLineUngated(line, valid_actions) ==
    LET groups == <<PatternStandard(line), PatternTemporal(line),
                    PatternNumbered(line), PatternStep(line)>>
        ok == {p \in 1..4 : LowerSeq(groups[p]) # <<>>}
    IN  IF line = <<>> \/ line[1] = ";" \/ ok = {} THEN <<>>
        ELSE LET p == CHOOSE a \in ok : \A b \in ok : a <= b
                 action_text == LowerSeq(groups[p])
             IN  <<IF action_text[1] = "(" THEN action_text ELSE Wrap(action_text)>>

\* lines 663-673: one line against the patterns in order
GenericLine(line, valid_actions) ==
    LET groups == <<PatternStandard(line), PatternTemporal(line),
                    PatternNumbered(line), PatternStep(line)>>
        Accepted(g) == LET action_parts == LowerSeq(g)
                       IN  action_parts # <<>> /\ InSeq(action_parts[1], valid_actions)
        ok == {p \in 1..4 : Accepted(groups[p])}
    IN  IF line = <<>> \/ line[1] = ";" \/ ok = {} THEN <<>>
        ELSE LET p == CHOOSE a \in ok : \A b \in ok : a <= b
                 action_text == LowerSeq(groups[p])
             IN  <<IF action_text[1] = "(" THEN action_text ELSE Wrap(action_text)>>

\* the loop of line 658, had it put each action in front of the plan
RECURSIVE GenericScanReversed(_, _, _)
GenericScanReversed(lines, i, valid_actions) ==
    IF i > Len(lines) THEN <<>>
    ELSE GenericScanReversed(lines, i + 1, valid_actions) \o GenericLine(lines[i], valid_actions)

\* lines 658-673: the loop over the lines, from line i on
RECURSIVE GenericScan(_, _, _)
GenericScan(lines, i, valid_actions) ==
    IF i > Len(lines) THEN <<>>
    ELSE GenericLine(lines[i], valid_actions) \o GenericScan(lines, i + 1, valid_actions)

\* the parser, had it not looked for the marks of an aborted run
parse_plan_text_unguarded(text, domain, planner) ==
    LET valid_actions == Get(domain_actions, domain, <<>>)
        delfi_plan == IF planner = "delfi"
                         /\ (TextContains(text, <<"Solution", "found!">>)
                             \/ TextContains(text, <<"Plan", "length:">>))
                        THEN DelfiScan(text, 1, FALSE, valid_actions)
                        ELSE <<>>
    IN  IF delfi_plan # <<>> THEN delfi_plan
        ELSE GenericScan(text, 1, valid_actions)

parse_plan_text(text, domain, planner) ==
    LET valid_actions == Get(domain_actions, domain, <<>>)
        delfi_plan == IF planner = "delfi"
                         /\ (TextContains(text, <<"Solution", "found!">>)
                             \/ TextContains(text, <<"Plan", "length:">>))
                        THEN DelfiScan(text, 1, FALSE, valid_actions)
                        ELSE <<>>
    IN  IF TextContains(text, <<"caught", "signal">>) \/ TextContains(text, <<"exiting">>)
          THEN <<>>
          ELSE IF delfi_plan # <<>> THEN delfi_plan
          ELSE GenericScan(text, 1, valid_actions)

\* the text sources, had stdout been gathered before the structured fields
PlanSourcesStdoutFirst(result) ==
    (IF "stdout" \in DOMAIN result THEN <<result.stdout>> ELSE <<>>)
    \o (IF "output" \in DOMAIN result
          THEN (IF "plan" \in DOMAIN result.output THEN <<result.output.plan>> ELSE <<>>)
               \o (IF "sas_plan" \in DOMAIN result.output
                      THEN <<result.output.sas_plan>> ELSE <<>>)
          ELSE <<>>)

\* the text sources of a result payload, in the order extract_plan gathers them
PlanSources(result) ==
    (IF "output" \in DOMAIN result
       THEN (IF "plan" \in DOMAIN result.output THEN <<result.output.plan>> ELSE <<>>)
            \o (IF "sas_plan" \in DOMAIN result.output THEN <<result.output.sas_plan>> ELSE <<>>)
       ELSE <<>>)
    \o (IF "stdout" \in DOMAIN result THEN <<result.stdout>> ELSE <<>>)

\* lines 586-590: the first plan that is not empty
FirstPlan(plans) ==
    LET yielding == {i \in 1..Len(plans) : plans[i] # <<>>}
    IN  IF yielding = {} THEN <<>>
        ELSE plans[CHOOSE i \in yielding : \A j \in yielding : i <= j]

extract_plan(result, planner, domain) ==
    FirstPlan([i \in 1..Len(PlanSources(result)) |->
                 IF PlanSources(result)[i] # <<>>
                   THEN parse_plan_text(PlanSources(result)[i], domain, planner)
                   ELSE <<>>])

\* ---------------------------------------------------------- progress monitor
\* numeric tokens and the numbers int() reads from them
NumTok ==
    [t \in {"1", "2", "4", "7", "8", "100", "150", "300", "1300"} |->
       CASE t = "1" -> 1 [] t = "2" -> 2 [] t = "4" -> 4 [] t = "7" -> 7 [] t = "8" -> 8
         [] t = "100" -> 100 [] t = "150" -> 150 [] t = "300" -> 300 [] OTHER -> 1300]
\* "[g=N," and the N inside
GTok == [t \in {"[g=5,", "[g=6,"} |-> IF t = "[g=5," THEN 5 ELSE 6]
\* "t=X.Ys," and the X.Y inside
TTok == [t \in {"t=1.5s,", "t=2.5s,"} |-> IF t = "t=1.5s," THEN "1.5" ELSE "2.5"]
\* "[X.Ys]" and the X.Y inside
BracketSeconds == [t \in {"[12.5s]"} |-> "12.5"]
\* tokens whose lower case contains "timeout"
TimeoutTokens == {"timeout", "Timeout"}

\* re.findall over the text: Val at every position where Hit holds, in text order
FindAll(text, Hit(_, _), Val(_, _)) ==
    LET hits == UNION {{<<l, i>> : i \in {j \in 1..Len(text[l]) : Hit(text[l], j)}} :
                          l \in 1..Len(text)}
        Before(q, p) == q[1] < p[1] \/ (q[1] = p[1] /\ q[2] <= p[2])
    IN  [k \in 1..Cardinality(hits) |->
           LET p == CHOOSE h \in hits : Cardinality({q \in hits : Before(q, h)}) = k
           IN  Val(text[p[1]], p[2])]

Last(seq) == seq[Len(seq)]

InitHit(line, i) ==
    /\ i + 4 <= Len(line)
    /\ SubSeq(line, i, i + 3) = <<"Done", "initializing", "merge-and-shrink", "heuristic">>
    /\ line[i + 4] \in DOMAIN BracketSeconds
InitVal(line, i) == BracketSeconds[line[i + 4]]

ChoseHit(line, i) == line[i] = "Chose" /\ i < Len(line)
ChoseVal(line, i) == SubSeq(line, i + 1, Len(line))

SearchHit(line, i) ==
    /\ i + 5 <= Len(line)
    /\ line[i] \in DOMAIN GTok
    /\ line[i + 1] \in DOMAIN NumTok /\ line[i + 2] = "evaluated,"
    /\ line[i + 3] \in DOMAIN NumTok /\ line[i + 4] = "expanded,"
    /\ line[i + 5] \in DOMAIN TTok
SearchVal(line, i) ==
    [g_value |-> GTok[line[i]], evaluated |-> NumTok[line[i + 1]],
     expanded |-> NumTok[line[i + 3]], search_time |-> TTok[line[i + 5]]]

FHit(line, i) ==
    i + 2 <= Len(line) /\ line[i] = "f" /\ line[i + 1] = "=" /\ line[i + 2] \in DOMAIN NumTok
FVal(line, i) == NumTok[line[i + 2]]

HColon(line, i) == FirstIndex(line, i + 4, LAMBDA t : t \in ColonTokens)
HHit(line, i) ==
    /\ i + 3 <= Len(line)
    /\ SubSeq(line, i, i + 3) = <<"New", "best", "heuristic", "value">>
    /\ HColon(line, i) < Len(line)
    /\ line[HColon(line, i) + 1] \in DOMAIN NumTok
HVal(line, i) == NumTok[line[HColon(line, i) + 1]]

\* lines 268-271
WithInit(progress, inits) ==
    IF inits # <<>> THEN Put(progress, "initialization_time", inits[1]) ELSE progress
\* lines 274-277
WithConfig(progress, chose) ==
    IF chose # <<>> THEN Put(progress, "selected_config", chose[1]) ELSE progress
\* lines 280-287
WithSearch(progress, matches) ==
    IF matches # <<>>
      THEN Put(Put(Put(Put(progress, "g_value", Last(matches).g_value),
                       "evaluated", Last(matches).evaluated),
                   "expanded", Last(matches).expanded),
               "search_time", Last(matches).search_time)
      ELSE progress
\* lines 290-293
WithF(progress, f_values) ==
    IF f_values # <<>>
      THEN Put(Put(progress, "current_f", Last(f_values)), "f_progression", f_values)
      ELSE progress
\* lines 296-298
WithH(progress, h_improvements) ==
    IF h_improvements # <<>> THEN Put(progress, "h_progression", h_improvements) ELSE progress
\* lines 301-304
WithTerminated(progress, stdout_text) ==
    IF TextContains(stdout_text, <<"caught", "signal">>)
      THEN Put(progress, "terminated", "signal")
      ELSE IF \E t \in TimeoutTokens : TextContains(stdout_text, <<t>>)
        THEN Put(progress, "terminated", "timeout")
        ELSE progress

monitor_delfi_progress(stdout_text) ==
    WithTerminated(
      WithH(
        WithF(
          WithSearch(
            WithConfig(
              WithInit(EmptyDict, FindAll(stdout_text, InitHit, InitVal)),
              FindAll(stdout_text, ChoseHit, ChoseVal)),
            FindAll(stdout_text, SearchHit, SearchVal)),
          FindAll(stdout_text, FHit, FVal)),
        FindAll(stdout_text, HHit, HVal)),
      stdout_text)

\* a.get(k) != b.get(k)
GetDiffers(a, b, k) ==
    \/ (k \in DOMAIN a) # (k \in DOMAIN b)
    \/ (k \in DOMAIN a /\ k \in DOMAIN b /\ a[k] # b[k])

\* should_save_debug: the value returned, given self.last_debug_state
should_save_debug(state, planner, domain, problem, progress_info) ==
    LET key == <<planner, domain, problem>>
    IN  IF key \notin DOMAIN state THEN TRUE
        ELSE /\ planner = "delfi"
             /\ \/ Get(progress_info, "evaluated", 0) - Get(state[key], "evaluated", 0)
                      > EvaluatedDelta
                \/ GetDiffers(progress_info, state[key], "current_f")

\* should_save_debug: self.last_debug_state after the call
DebugStateAfter(state, planner, domain, problem, progress_info) ==
    IF should_save_debug(state, planner, domain, problem, progress_info)
      THEN Put(state, <<planner, domain, problem>>, progress_info)
      ELSE state

\* --------------------------------------------------------------- result cache
\* f"{domain}_{planner}_{problem.replace('.pddl', '')}.json" in the results directory
ResultFile(domain, planner, problem) ==
    [kind |-> "RESULT", domain |-> domain, planner |-> planner, problem |-> StripPddl(problem)]

\* the test of line 244, had it admitted a plan_length of 0
CachePassesNonNegative(data) ==
    Get(data, "solved", FALSE) /\ Get(data, "plan_length", 0) >= 0

\* a file is [kind |-> "json", data |-> dict] or [kind |-> "garbage"] (json.load raises)
CachePasses(data) == Get(data, "solved", FALSE) /\ Get(data, "plan_length", 0) > 0

\* lines 241-245, the body of the try on a file that exists: the value of the
\* test of line 244, or the exception a statement raises.  A file is
\*   [kind |-> "unreadable"]    open raises (no permission, a directory)
\*   [kind |-> "garbage"]       json.load raises
\*   [kind |-> "json_value"]    the content is a list, a string, a number or null:
\*                              data.get raises
\*   [kind |-> "json_mistyped"] a dict whose plan_length is a string, a list or null:
\*                              the comparison with 0 raises once solved is true
\*   [kind |-> "json"]          a dict with a Boolean solved and an integer plan_length
TryBlock(file) ==
    IF file.kind = "unreadable" THEN "OSError"
    ELSE IF file.kind = "garbage" THEN "JSONDecodeError"
    ELSE IF file.kind = "json_value" THEN "AttributeError"
    ELSE IF file.kind = "json_mistyped"
      THEN IF Get(file.data, "solved", FALSE) THEN "TypeError" ELSE "false"
    ELSE IF CachePasses(file.data) THEN "true" ELSE "false"

\* the handler, had it been "except json.JSONDecodeError: pass"
ExceptPassJsonOnly(t) == IF t = "JSONDecodeError" THEN "false" ELSE t

\* lines 246-247, "except: pass": every exception is dropped and control falls to line 249
ExceptPass(t) == IF t \in {"true", "false"} THEN t ELSE "false"

\* the check, had the file name been built with planner and domain exchanged
check_existing_result_swapped(dir, domain, planner, problem) ==
    LET existing_path == ResultFile(planner, domain, problem)
    IN  IF /\ existing_path \in DOMAIN dir
           /\ dir[existing_path].kind = "json"
           /\ CachePasses(dir[existing_path].data)
          THEN [exists |-> TRUE, data |-> <<dir[existing_path].data>>]
          ELSE [exists |-> FALSE, data |-> <<>>]

\* lines 235-249: (exists, data); an exception no handler catches leaves the method
check_existing_result(dir, domain, planner, problem) ==
    LET existing_path == ResultFile(domain, planner, problem)
    IN  IF existing_path \notin DOMAIN dir THEN [exists |-> FALSE, data |-> <<>>]
        ELSE IF ExceptPass(TryBlock(dir[existing_path])) = "true"
          THEN [exists |-> TRUE, data |-> <<dir[existing_path].data>>]
        ELSE IF ExceptPass(TryBlock(dir[existing_path])) = "false"
          THEN [exists |-> FALSE, data |-> <<>>]
        ELSE [raised |-> ExceptPass(TryBlock(dir[existing_path]))]

\* ------------------------------------------------------------- environment
\* self.domains after _load_domains: the logistics domain file is not there
domains == [d \in {"blocksworld", "barman"} |-> "(define (domain ...))"]

\* self.all_problems after _discover_problems: <<domain, problem, directory>>
all_problems ==
    << <<"barman", Instance(<<"1">>), "barman_files">>,
       <<"logistics", <<"prob", "LOGISTICS-", "4", "-", "0", ".pddl">>, "logistics_files">> >>

\* a problem file put into its directory after the scan, and one that is not there
LateProblem == <<"blocksworld", Problema(<<"0", "1">>, "facil"), "blocksworld_files">>
MissingProblem == <<"blocksworld", Problema(<<"0", "2">>, "facil"), "blocksworld_files">>
\* a hard problem, there as well, that delfi is given three hours for
SessionProblem == <<"blocksworld", Problema(<<"0", "7">>, "dificil"), "blocksworld_files">>

\* os.path.exists(problem_path)
ProblemFileExists(problem_dir, problem) ==
    \/ \E i \in 1..Len(all_problems) :
          all_problems[i][3] = problem_dir /\ all_problems[i][2] = problem
    \/ (LateProblem[3] = problem_dir /\ LateProblem[2] = problem)
    \/ (SessionProblem[3] = problem_dir /\ SessionProblem[2] = problem)

\* the experiments a caller of run_experiment_with_extended_timeout asks for
CallSet ==
    { <<"delfi", LateProblem>>, <<"lama-first", LateProblem>>,
      <<"lama-first", MissingProblem>>,
      <<"lama-first", all_problems[1]>>, <<"optic", all_problems[1]>>,
      <<"dual-bfws-ffparser", all_problems[2]>> }

PlannerSet == {planners[i] : i \in 1..Len(planners)}

\* solver output texts
LinePickUp == <<"(", "pick-up", "a", ")">>
LineStack == <<"(", "stack", "a", "b", ")">>
LineGrasp == <<"(", "grasp", "a", "b", ")">>
SearchLog(evaluated) ==
    << <<"f", "=", "7", "[g=5,", evaluated, "evaluated,", "300", "expanded,", "t=1.5s,">> >>

PlanResult == [stdout |-> <<LinePickUp, LineGrasp, LineStack>>]
BlocksPlanResult == [stdout |-> <<LinePickUp, LineStack>>]
SearchingResult(evaluated) == [stdout |-> SearchLog(evaluated)]

\* what requests.post gives: raises, or a response whose .json() is <<dict>> or raises (<<>>)
PostOutcomes ==
    { [kind |-> "exception", msg |-> "Connection refused"],
      [kind |-> "exception", msg |-> "Read timed out. (read timeout=60)"],
      [kind |-> "http", status_code |-> 500, json |-> <<>>],
      [kind |-> "http", status_code |-> 200, json |-> <<>>],
      [kind |-> "http", status_code |-> 200, json |-> <<EmptyDict>>],
      [kind |-> "http", status_code |-> 200, json |-> <<[result |-> "/check/1"]>>] }

\* what requests.get gives
PollOutcomes ==
    { [kind |-> "exception", msg |-> "Connection refused"],
      [kind |-> "http", status_code |-> 502, json |-> <<>>],
      [kind |-> "http", status_code |-> 200, json |-> <<>>],
      [kind |-> "http", status_code |-> 200, json |-> <<EmptyDict>>],
      [kind |-> "http", status_code |-> 200, json |-> <<[status |-> "ok"]>>],
      [kind |-> "http", status_code |-> 200,
       json |-> <<[status |-> "ok", result |-> SearchingResult("100")]>>],
      [kind |-> "http", status_code |-> 200,
       json |-> <<[status |-> "ok", result |-> SearchingResult("1300")]>>],
      [kind |-> "http", status_code |-> 200,
       json |-> <<[status |-> "ok", result |-> PlanResult]>>],
      [kind |-> "http", status_code |-> 200,
       json |-> <<[status |-> "ok", result |-> BlocksPlanResult]>>],
      [kind |-> "http", status_code |-> 200,
       json |-> <<[status |-> "error", result |-> PlanResult]>>],
      [kind |-> "http", status_code |-> 200, json |-> <<[status |-> "failed"]>>] }

\* files that may lie in the results directory before the run
JsonFile(data) == [kind |-> "json", data |-> data]
PreexistingFiles ==
    { [kind |-> "garbage"],
      JsonFile(EmptyDict),
      JsonFile([solved |-> TRUE, plan_length |-> 1, plan |-> <<LinePickUp>>]),
      JsonFile([solved |-> TRUE, plan_length |-> 2, plan |-> <<LinePickUp>>]),
      JsonFile([solved |-> FALSE, plan_length |-> 1, plan |-> <<LinePickUp>>]),
      JsonFile([solved |-> TRUE, plan_length |-> 0, plan |-> <<>>]),
      JsonFile([solved |-> TRUE, plan_length |-> -1, plan |-> <<>>]) }

\* the experiments whose result file may be such a file
PreexistingNames ==
    { ResultFile("barman", "optic", Instance(<<"1">>)),
      ResultFile("barman", "lama-first", Instance(<<"1">>)),
      ResultFile("logistics", "dual-bfws-ffparser", all_problems[2][2]) }

\* the results directory an earlier, complete batch has left
FullCache ==
    [n \in {ResultFile(all_problems[i][1], planners[pl], all_problems[i][2]) :
               pl \in 1..Len(planners), i \in 1..Len(all_problems)} |->
       JsonFile([solved |-> TRUE, plan_length |-> 1, plan |-> <<LinePickUp>>])]

\* ------------------------------------------------------------------- state
VARIABLES
    results_dir,       \* results directory: file name -> file
    debug_dir,         \* debug directory: the names of the files in it
    last_debug_state,  \* self.last_debug_state
    wrote,             \* names of the results files this runner has written
    calls,             \* calls made of the two entry points
    pc,                \* "idle", "run", "polling", "returned", "batch", "batch_returned"
    caller,            \* who called run_experiment_with_extended_timeout
    args,              \* its arguments
    timeout, result_data, result_url, start, now, last_progress, poll_responses,
    debug_save_count,
    ret,               \* <<value returned by the last run_experiment call>>
    outcome,           \* the terminal state of that call
    posts, gets,       \* requests issued by the current call
    post_resp,         \* what the submission POST gave
    last_resp,         \* what the last poll GET gave
    written,           \* files written by the current call, in order
    to_run, idx, stats, batch_ret

fs == <<results_dir, debug_dir, wrote>>
locals == <<timeout, result_data, result_url, start, now, last_progress, poll_responses,
           debug_save_count>>
trace == <<ret, outcome, posts, gets, post_resp, last_resp, written>>
batch == <<to_run, idx, stats, batch_ret>>
vars == <<results_dir, debug_dir, last_debug_state, wrote, calls, pc, caller, args,
          timeout, result_data, result_url, start, now, last_progress, poll_responses,
          debug_save_count,
          ret, outcome, posts, gets, post_resp, last_resp, written, to_run, idx, stats, batch_ret>>

NoResp == [kind |-> None]
NoArgs == [planner |-> None, domain |-> None, problem |-> <<>>, problem_dir |-> None]

Init ==
    /\ \/ \E S \in SUBSET PreexistingNames :
             /\ Cardinality(S) <= MaxPreexisting
             /\ results_dir \in [S -> PreexistingFiles]
       \/ results_dir = FullCache
    /\ debug_dir = {}
    /\ last_debug_state = EmptyDict
    /\ wrote = {}
    /\ calls = 0
    /\ pc = "idle"
    /\ caller = None
    /\ args = NoArgs
    /\ timeout = 0 /\ result_data = EmptyDict /\ result_url = None /\ start = 0 /\ now = 0
    /\ last_progress = 0 /\ poll_responses = <<>> /\ debug_save_count = 0
    /\ ret = <<>> /\ outcome = None /\ posts = 0 /\ gets = 0 /\ written = <<>>
    /\ post_resp = NoResp /\ last_resp = NoResp
    /\ to_run = <<>> /\ idx = 0 /\ stats = EmptyDict /\ batch_ret = <<>>

\* the locals of run_experiment_with_extended_timeout go out of scope
ClearLocals ==
    /\ timeout' = 0 /\ result_data' = EmptyDict /\ result_url' = None /\ start' = 0 /\ now' = 0
    /\ last_progress' = 0 /\ poll_responses' = <<>> /\ debug_save_count' = 0

\* what the model records of a call is forgotten
ClearTrace ==
    /\ ret' = <<>> /\ outcome' = None /\ posts' = 0 /\ gets' = 0 /\ written' = <<>>
    /\ post_resp' = NoResp /\ last_resp' = NoResp

\* a call of run_experiment_with_extended_timeout begins
Enter(who, a) ==
    /\ pc' = "run" /\ caller' = who /\ args' = a
    /\ ClearTrace
    /\ ClearLocals

\* return value; the call is over
Leave(value, state) == pc' = "returned" /\ ret' = <<value>> /\ outcome' = state

\* ------------------------------------------------------- artifact writers
base_url == "https://solver.planning.domains:5001"

DebugFile(kind, a) ==
    [kind |-> kind, domain |-> a.domain, planner |-> a.planner, problem |-> StripPddl(a.problem)]
StampedFile(kind, a, t) ==
    [kind |-> kind, domain |-> a.domain, planner |-> a.planner,
     problem |-> StripPddl(a.problem), ts |-> t]

Write(dir, name, data) == [dir |-> dir, name |-> name, data |-> data]

\* _save_failed_result, had it written next to the success artifacts
save_failed_result_in_results(rd) ==
    /\ results_dir' = Put(results_dir, DebugFile("FAILED", args), JsonFile(rd))
    /\ written' = Append(written, Write("results", DebugFile("FAILED", args), rd))
    /\ UNCHANGED <<debug_dir, wrote>>

\* _save_failed_result
save_failed_result(rd) ==
    /\ debug_dir' = debug_dir \cup {DebugFile("FAILED", args)}
    /\ written' = Append(written, Write("debug", DebugFile("FAILED", args), rd))
    /\ UNCHANGED <<results_dir, wrote>>

\* poll_responses[-10:]
\* poll_responses[:10] in the place of poll_responses[-10:]
FirstN(seq, n) == IF Len(seq) <= n THEN seq ELSE SubSeq(seq, 1, n)
LastN(seq, n) == IF Len(seq) <= n THEN seq ELSE SubSeq(seq, Len(seq) - n + 1, Len(seq))

\* _save_timeout_debug
save_timeout_debug(rd, last_polls) ==
    LET debug_data ==
          [domain |-> args.domain, planner |-> args.planner, problem |-> args.problem,
           timeout_used |-> timeout, total_time |-> rd.time, error |-> "TIMEOUT",
           last_poll_responses |-> last_polls, result_url |-> result_url,
           final_progress |-> Get(rd, "progress_info", EmptyDict)]
    IN  /\ debug_dir' = debug_dir \cup {StampedFile("TIMEOUT", args, now)}
        /\ written' = Append(written, Write("debug", StampedFile("TIMEOUT", args, now), debug_data))
        /\ UNCHANGED <<results_dir, wrote>>

\* _save_minimal_debug_info, called at time t
MinimalDebugWrite(t, progress_info) ==
    Write("debug", StampedFile("DEBUG", args, t),
          [domain |-> args.domain, planner |-> args.planner, problem |-> args.problem,
           elapsed_time |-> t - start, progress |-> progress_info])

\* the success artifact, had its name kept the '.pddl' of the problem
save_success_unstripped(rd) ==
    LET filename == [ResultFile(args.domain, args.planner, args.problem)
                       EXCEPT !.problem = args.problem]
    IN  /\ results_dir' = Put(results_dir, filename, JsonFile(rd))
        /\ wrote' = wrote \cup {filename}
        /\ written' = Append(written, Write("results", filename, rd))
        /\ UNCHANGED debug_dir

\* lines 457-461: the success artifact
save_success(rd) ==
    LET filename == ResultFile(args.domain, args.planner, args.problem)
    IN  /\ results_dir' = Put(results_dir, filename, JsonFile(rd))
        /\ wrote' = wrote \cup {filename}
        /\ written' = Append(written, Write("results", filename, rd))
        /\ UNCHANGED debug_dir

\* ------------------------------------- run_experiment_with_extended_timeout
InitialResult(a, t) ==
    [domain |-> a.domain, planner |-> a.planner, problem |-> a.problem,
     timeout_used |-> t, solved |-> FALSE, time |-> 0, plan |-> <<>>, plan_length |-> 0,
     raw |-> <<>>, error |-> None, progress_info |-> EmptyDict]

Blacklisted == is_blacklisted(args.planner, args.domain, args.problem)
Cached == check_existing_result(results_dir, args.domain, args.planner, args.problem)
LocalError ==
    IF args.domain \notin DOMAIN domains THEN "Domain not loaded"
    ELSE IF ~ProblemFileExists(args.problem_dir, args.problem) THEN "Problem file not found"
    ELSE None

\* requests.post / requests.get raises, or the body of a 200 response is not JSON
Raises(r) == IF r.kind = "exception" THEN TRUE ELSE r.status_code = 200 /\ r.json = <<>>
\* response.status_code != 200
Not200(r) == IF r.kind = "exception" THEN FALSE ELSE r.status_code # 200
\* lines 396, 406: the submission is answered, but not with a result location
Refused(post) ==
    IF Raises(post) THEN FALSE
    ELSE IF post.status_code # 200 THEN TRUE
    ELSE "result" \notin DOMAIN post.json[1]

\* f"HTTP {response.status_code}"
HttpError(code) == IF code = 500 THEN "HTTP 500" ELSE "HTTP 502"

\* lines 338-340
Skipped ==
    /\ pc = "run"
    /\ Blacklisted
    /\ Leave([solved |-> FALSE, error |-> "Blacklisted", skipped |-> TRUE], "Skipped")
    /\ UNCHANGED <<fs, last_debug_state, calls, caller, args, locals, posts, post_resp, gets,
                   last_resp, written, batch>>

\* lines 343-346
CacheHit ==
    /\ pc = "run"
    /\ ~Blacklisted
    /\ Cached.exists
    /\ Leave(Cached.data[1], "CacheHit")
    /\ UNCHANGED <<fs, last_debug_state, calls, caller, args, locals, posts, post_resp, gets,
                   last_resp, written, batch>>

\* lines 349-357
PreconditionFailed ==
    /\ pc = "run"
    /\ ~Blacklisted
    /\ ~Cached.exists
    /\ LocalError # None
    /\ Leave([solved |-> FALSE, error |-> LocalError], "LocalError")
    /\ UNCHANGED <<fs, last_debug_state, calls, caller, args, locals, posts, post_resp, gets,
                   last_resp, written, batch>>

CanSubmit == pc = "run" /\ ~Blacklisted /\ ~Cached.exists /\ LocalError = None

\* lines 396-413, had the calls of _save_failed_result been left out
SubmitRejectedUnsaved(post) ==
    /\ CanSubmit
    /\ Refused(post)
    /\ timeout' = get_timeout(args.planner, args.problem)
    /\ result_data' =
          [InitialResult(args, get_timeout(args.planner, args.problem)) EXCEPT
             !.error = IF post.status_code # 200 THEN HttpError(post.status_code)
                       ELSE "No result URL"]
    /\ Leave(result_data', "SubmitError")
    /\ posts' = posts + 1
    /\ post_resp' = post
    /\ UNCHANGED <<fs, last_debug_state, calls, caller, args, result_url, start, now,
                   last_progress, poll_responses, debug_save_count, gets, last_resp, written,
                   batch>>

\* lines 396-413, had a refused submission been sent once more before giving up
SubmitRejectedRetried(post) ==
    /\ CanSubmit
    /\ Refused(post)
    /\ LET t == get_timeout(args.planner, args.problem)
           rd == [InitialResult(args, t) EXCEPT
                    !.error = IF post.status_code # 200 THEN HttpError(post.status_code)
                              ELSE "No result URL",
                    !.time = 0]
       IN  /\ timeout' = t
           /\ result_data' = rd
           /\ save_failed_result(rd)
           /\ Leave(rd, "SubmitError")
    /\ posts' = posts + 2
    /\ post_resp' = post
    /\ UNCHANGED <<last_debug_state, calls, caller, args, result_url, start, now, last_progress,
                   poll_responses, debug_save_count, gets, last_resp, batch>>

\* lines 362-403, 405-413: the service refuses the submission
SubmitRejected(post) ==
    /\ CanSubmit
    /\ Refused(post)
    /\ LET t == get_timeout(args.planner, args.problem)
           rd == [InitialResult(args, t) EXCEPT
                    !.error = IF post.status_code # 200 THEN HttpError(post.status_code)
                              ELSE "No result URL",
                    !.time = 0]
       IN  /\ timeout' = t
           /\ result_data' = rd
           /\ save_failed_result(rd)
           /\ Leave(rd, "SubmitError")
    /\ posts' = posts + 1
    /\ post_resp' = post
    /\ UNCHANGED <<last_debug_state, calls, caller, args, result_url, start, now, last_progress,
                   poll_responses, debug_save_count, gets, last_resp, batch>>

\* lines 394, 405, 519-526: requests.post or response.json() raises
SubmitRaised(post) ==
    /\ CanSubmit
    /\ Raises(post)
    /\ LET t == get_timeout(args.planner, args.problem)
           rd == [InitialResult(args, t) EXCEPT
                    !.error = IF post.kind = "exception" THEN post.msg
                              ELSE "Expecting value: line 1 column 1 (char 0)",
                    !.time = 0]
       IN  /\ timeout' = t
           /\ result_data' = rd
           /\ save_failed_result(rd)
           /\ Leave(rd, "Exception")
    /\ posts' = posts + 1
    /\ post_resp' = post
    /\ UNCHANGED <<last_debug_state, calls, caller, args, result_url, start, now, last_progress,
                   poll_responses, debug_save_count, gets, last_resp, batch>>

\* lines 362-424: the submission is accepted, the polling loop is reached
SubmitAccepted(post) ==
    /\ CanSubmit
    /\ ~Raises(post) /\ ~Refused(post)
    /\ timeout' = get_timeout(args.planner, args.problem)
    /\ result_data' = InitialResult(args, get_timeout(args.planner, args.problem))
    /\ result_url' = <<base_url, post.json[1].result>>
    /\ start' = now
    /\ last_progress' = now
    /\ poll_responses' = <<>>
    /\ debug_save_count' = 0
    /\ posts' = posts + 1
    /\ post_resp' = post
    /\ pc' = "polling"
    /\ UNCHANGED <<fs, last_debug_state, calls, caller, args, now, ret, outcome, gets,
                   last_resp, written, batch>>

\* ------------------------------------------------------------ polling loop
\* line 426, had the loop been "while True"
LoopContinuesForever == TRUE

\* line 426, had the comparison been <=
LoopContinuesInclusive == (now - start) * TimeUnit <= timeout

\* line 426: while time.time() - start < timeout
LoopContinues == (now - start) * TimeUnit < timeout

Polling == pc = "polling" /\ LoopContinues

Parsed(r) == ~Raises(r) /\ ~Not200(r)
StatusIs(resp_data, values) == "status" \in DOMAIN resp_data /\ resp_data.status \in values

\* lines 433-437
PollRecord(resp_data, t) ==
    [time_elapsed |-> t - start, status |-> Get(resp_data, "status", None),
     has_result |-> "result" \in DOMAIN resp_data]

\* lines 440-445
AfterOk(rd, resp_data, t) ==
    LET rd1 == [rd EXCEPT !.time = t - start, !.raw = <<resp_data>>]
    IN  IF "result" \in DOMAIN resp_data /\ "stdout" \in DOMAIN resp_data.result
          THEN [rd1 EXCEPT !.progress_info = monitor_delfi_progress(resp_data.result.stdout)]
          ELSE rd1

\* the extraction, had it kept the vocabulary of the first domain it served
PlanOfStaleDomain(resp_data) ==
    IF "result" \in DOMAIN resp_data
      THEN extract_plan(resp_data.result, args.planner,
                        IF wrote # {} THEN "barman" ELSE args.domain)
      ELSE <<>>

\* lines 447-449
PlanOf(resp_data) ==
    IF "result" \in DOMAIN resp_data
      THEN extract_plan(resp_data.result, args.planner, args.domain)
      ELSE <<>>

\* line 451, had it asked for more than one action
PlanFoundLong(plan) == plan # <<>> /\ Len(plan) > 1

\* line 451
PlanFound(plan) == plan # <<>> /\ Len(plan) > 0

\* line 466
ProgressDue(t) == (t - last_progress) * TimeUnit > ProgressInterval

\* lines 481-483, without the call of should_save_debug
\* the test of lines 481-482 without its cap
DebugAllowedUncapped == args.planner = "delfi"
DebugAllowed == args.planner = "delfi" /\ debug_save_count < max_debug_saves

\* time.sleep(0.5), after a GET that took d ticks
SleepAfter(d) == now' = now + d + SleepTicks

\* lines 428-430, had the loop body no try of its own: line 519 catches
PollRaisedEscapes(r, d) ==
    /\ Polling
    /\ Raises(r)
    /\ gets' = gets + 1
    /\ last_resp' = r
    /\ now' = now + d
    /\ result_data' = [result_data EXCEPT !.error = "Connection refused",
                                          !.time = now + d - start]
    /\ save_failed_result(result_data')
    /\ Leave(result_data', "Exception")
    /\ UNCHANGED <<last_debug_state, calls, caller, args, timeout, result_url, start,
                   last_progress, poll_responses, debug_save_count, posts, post_resp, batch>>

\* lines 428, 430, 498-499: requests.get or resp.json() raises
PollRaised(r, d) ==
    /\ Polling
    /\ Raises(r)
    /\ gets' = gets + 1
    /\ last_resp' = r
    /\ SleepAfter(d)
    /\ UNCHANGED <<fs, last_debug_state, calls, pc, caller, args, timeout, result_data,
                   result_url, start, last_progress, poll_responses, debug_save_count, ret,
                   outcome, posts, post_resp, written, batch>>

\* lines 428-429, 496: a response that is not 200
PollNot200(r, d) ==
    /\ Polling
    /\ Not200(r)
    /\ gets' = gets + 1
    /\ last_resp' = r
    /\ SleepAfter(d)
    /\ UNCHANGED <<fs, last_debug_state, calls, pc, caller, args, timeout, result_data,
                   result_url, start, last_progress, poll_responses, debug_save_count, ret,
                   outcome, posts, post_resp, written, batch>>

\* lines 428-439, 487, 496: a status that is neither "ok" nor "error"/"failed"
PollPending(r, d) ==
    /\ Polling
    /\ Parsed(r)
    /\ ~StatusIs(r.json[1], {"ok", "error", "failed"})
    /\ gets' = gets + 1
    /\ last_resp' = r
    /\ poll_responses' = Append(poll_responses, PollRecord(r.json[1], now + d))
    /\ SleepAfter(d)
    /\ UNCHANGED <<fs, last_debug_state, calls, pc, caller, args, timeout, result_data,
                   result_url, start, last_progress, debug_save_count, ret, outcome, posts,
                   post_resp, written, batch>>

\* lines 464-485: the result so far is kept, progress is reported every 30 seconds
KeepPolling(resp_data, t, rd) ==
    LET progress_info == Get(rd, "progress_info", EmptyDict)
        due == "result" \in DOMAIN resp_data /\ ProgressDue(t)
        save == due /\ DebugAllowed
                /\ should_save_debug(last_debug_state, args.planner, args.domain,
                                     args.problem, progress_info)
    IN  /\ result_data' = rd
        /\ poll_responses' = Append(poll_responses, PollRecord(resp_data, t))
        /\ last_progress' = IF due THEN t ELSE last_progress
        /\ last_debug_state' =
              IF due /\ DebugAllowed
                THEN DebugStateAfter(last_debug_state, args.planner, args.domain,
                                     args.problem, progress_info)
                ELSE last_debug_state
        /\ debug_save_count' = IF save THEN debug_save_count + 1 ELSE debug_save_count
        /\ written' = IF save THEN Append(written, MinimalDebugWrite(t, progress_info))
                      ELSE written
        /\ debug_dir' = IF save THEN debug_dir \cup {StampedFile("DEBUG", args, t)}
                        ELSE debug_dir

\* lines 428-451, 464-485, 496: status "ok", no plan yet
PollOk(r, d) ==
    /\ Polling
    /\ Parsed(r)
    /\ StatusIs(r.json[1], {"ok"})
    /\ ~PlanFound(PlanOf(r.json[1]))
    /\ KeepPolling(r.json[1], now + d, AfterOk(result_data, r.json[1], now + d))
    /\ gets' = gets + 1
    /\ last_resp' = r
    /\ SleepAfter(d)
    /\ UNCHANGED <<results_dir, wrote, calls, pc, caller, args, timeout, result_url, start, ret,
                   outcome, posts, post_resp, batch>>

\* lines 452-454, had plan_length been left as it was
WithPlanStaleLength(rd, plan) == [rd EXCEPT !.solved = TRUE, !.plan = plan]

\* lines 452-454
WithPlan(rd, plan) == [rd EXCEPT !.solved = TRUE, !.plan = plan, !.plan_length = Len(plan)]

\* lines 456-463
ReturnSolved(rd) ==
    /\ result_data' = rd
    /\ save_success(rd)
    /\ Leave(rd, "Solved")

\* lines 428-463: status "ok" and a plan
PollSolved(r, d) ==
    /\ Polling
    /\ Parsed(r)
    /\ StatusIs(r.json[1], {"ok"})
    /\ PlanFound(PlanOf(r.json[1]))
    /\ poll_responses' = Append(poll_responses, PollRecord(r.json[1], now + d))
    /\ ReturnSolved(WithPlan(AfterOk(result_data, r.json[1], now + d), PlanOf(r.json[1])))
    /\ gets' = gets + 1
    /\ last_resp' = r
    /\ now' = now + d
    /\ UNCHANGED <<last_debug_state, calls, caller, args, timeout, result_url, start,
                   last_progress, debug_save_count, posts, post_resp, batch>>

\* lines 487-494, had the branch not returned
PollFailedIgnored(r, d) ==
    /\ Polling
    /\ Parsed(r)
    /\ StatusIs(r.json[1], {"error", "failed"})
    /\ gets' = gets + 1
    /\ last_resp' = r
    /\ poll_responses' = Append(poll_responses, PollRecord(r.json[1], now + d))
    /\ SleepAfter(d)
    /\ UNCHANGED <<fs, last_debug_state, calls, pc, caller, args, timeout, result_data,
                   result_url, start, last_progress, debug_save_count, ret, outcome, posts,
                   post_resp, written, batch>>

\* lines 428-437, 487-494: status "error" or "failed"
PollFailed(r, d) ==
    /\ Polling
    /\ Parsed(r)
    /\ StatusIs(r.json[1], {"error", "failed"})
    /\ LET resp_data == r.json[1]
           t == now + d
           rd == [result_data EXCEPT !.error = "Planning failed", !.time = t - start]
       IN  /\ result_data' = rd
           /\ poll_responses' = Append(poll_responses, PollRecord(resp_data, t))
           /\ save_failed_result(rd)
           /\ Leave(rd, "Failed")
    /\ gets' = gets + 1
    /\ last_resp' = r
    /\ now' = now + d
    /\ UNCHANGED <<last_debug_state, calls, caller, args, timeout, result_url, start,
                   last_progress, debug_save_count, posts, post_resp, batch>>

\* lines 426, 501-517: the loop condition fails
TimedOut ==
    /\ pc = "polling"
    /\ ~LoopContinues
    /\ LET rd == [result_data EXCEPT !.error = "Extended timeout reached", !.time = now - start]
       IN  /\ result_data' = rd
           /\ save_timeout_debug(rd, LastN(poll_responses, LastPollsKept))
           /\ Leave(rd, "TimedOut")
    /\ UNCHANGED <<last_debug_state, calls, caller, args, timeout, result_url, start, now,
                   last_progress, poll_responses, debug_save_count, posts, post_resp, gets,
                   last_resp, batch>>

\* ------------------------------------------------------------ entry points
ArgsOf(planner, prob) ==
    [planner |-> planner, domain |-> prob[1], problem |-> prob[2], problem_dir |-> prob[3]]

\* some caller runs one experiment
CallExperiment(planner, prob) ==
    /\ pc = "idle"
    /\ calls < MaxCalls
    /\ calls' = calls + 1
    /\ Enter("single", ArgsOf(planner, prob))
    /\ UNCHANGED <<fs, last_debug_state, batch>>

\* ... and gets the result
ReturnToCaller ==
    /\ pc = "returned"
    /\ caller = "single"
    /\ pc' = "idle"
    /\ caller' = None
    /\ args' = NoArgs
    /\ ClearLocals
    /\ ClearTrace
    /\ UNCHANGED <<fs, last_debug_state, calls, batch>>

\* lines 688-691
BlacklistedCount ==
    Cardinality({<<pl, i>> \in (1..Len(planners)) \X (1..Len(all_problems)) :
                    is_blacklisted(planners[pl], all_problems[i][1], all_problems[i][2])})

\* lines 699-708: the matrix in planner-major order, <<planner, problem index>>
MatrixOrder ==
    [k \in 1..(Len(planners) * Len(all_problems)) |->
       <<planners[((k - 1) \div Len(all_problems)) + 1],
         all_problems[((k - 1) % Len(all_problems)) + 1]>>]

NotBlacklisted(e) == ~is_blacklisted(e[1], e[2][1], e[2][2])
IsCached(e) == check_existing_result(results_dir, e[2][1], e[1], e[2][2]).exists

\* the work list without the cache check
ToRunCachedToo == SelectSeq(MatrixOrder, LAMBDA e : NotBlacklisted(e))
ToRun == SelectSeq(MatrixOrder, LAMBDA e : NotBlacklisted(e) /\ ~IsCached(e))
ExistingCount == Len(SelectSeq(MatrixOrder, LAMBDA e : NotBlacklisted(e) /\ IsCached(e)))

\* lines 677-715: run_all_experiments with nothing left to run
RunAllNothingToRun ==
    /\ pc = "idle"
    /\ calls < MaxCalls
    /\ Len(ToRun) = 0
    /\ calls' = calls + 1
    /\ batch_ret' = <<[solved |-> ExistingCount, failed |-> 0, timeout |-> 0,
                       skipped |-> BlacklistedCount]>>
    /\ pc' = "batch_returned"
    /\ UNCHANGED <<fs, last_debug_state, caller, args, locals, trace, to_run, idx, stats>>

\* lines 677-718: run_all_experiments up to its loop
RunAllStart ==
    /\ pc = "idle"
    /\ calls < MaxCalls
    /\ Len(ToRun) > 0
    /\ calls' = calls + 1
    /\ to_run' = ToRun
    /\ idx' = 1
    /\ stats' = [solved |-> 0, failed |-> 0, timeout |-> 0, skipped |-> BlacklistedCount]
    /\ batch_ret' = <<>>
    /\ pc' = "batch"
    /\ UNCHANGED <<fs, last_debug_state, caller, args, locals, trace>>

\* lines 720-723: the loop calls the next experiment
BatchCall ==
    /\ pc = "batch"
    /\ idx <= Len(to_run)
    /\ Enter("batch", ArgsOf(to_run[idx][1], to_run[idx][2]))
    /\ UNCHANGED <<fs, last_debug_state, calls, batch>>

\* the errors whose text contains "timeout", lower-cased
TimeoutErrors == {"Extended timeout reached", "Read timed out. (read timeout=60)"}

\* lines 725-736
Classify(result, st) ==
    IF Get(result, "skipped", FALSE) THEN st
    ELSE IF Get(result, "solved", FALSE) THEN [st EXCEPT !.solved = @ + 1]
    ELSE IF Get(result, "error", "") \in TimeoutErrors THEN [st EXCEPT !.timeout = @ + 1]
    ELSE [st EXCEPT !.failed = @ + 1]

\* the loop is abandoned when an experiment has not been solved
BatchAccountStopsOnError ==
    /\ pc = "returned"
    /\ caller = "batch"
    /\ stats' = Classify(ret[1], stats)
    /\ idx' = idx + 1
    /\ pc' = IF Get(ret[1], "solved", FALSE) THEN "batch" ELSE "batch_returned"
    /\ caller' = None
    /\ args' = NoArgs
    /\ ClearLocals
    /\ ClearTrace
    /\ UNCHANGED <<fs, last_debug_state, calls, to_run, batch_ret>>

\* lines 723-739: the experiment has returned
BatchAccount ==
    /\ pc = "returned"
    /\ caller = "batch"
    /\ stats' = Classify(ret[1], stats)
    /\ idx' = idx + 1
    /\ pc' = "batch"
    /\ caller' = None
    /\ args' = NoArgs
    /\ ClearLocals
    /\ ClearTrace
    /\ UNCHANGED <<fs, last_debug_state, calls, to_run, batch_ret>>

\* lines 741-779: the loop is over
BatchFinish ==
    /\ pc = "batch"
    /\ idx > Len(to_run)
    /\ debug_dir' = debug_dir \cup {[kind |-> "run_summary"]}
    /\ batch_ret' = <<stats>>
    /\ pc' = "batch_returned"
    /\ UNCHANGED <<results_dir, wrote, last_debug_state, calls, caller, args, locals, trace,
                   to_run, idx, stats>>

\* the caller of run_all_experiments has the counters
ReturnFromBatch ==
    /\ pc = "batch_returned"
    /\ pc' = "idle"
    /\ to_run' = <<>> /\ idx' = 0 /\ stats' = EmptyDict /\ batch_ret' = <<>>
    /\ UNCHANGED <<fs, last_debug_state, calls, caller, args, locals, trace>>

DurationSet == 0..GetTicks

Next ==
    \/ \E e \in CallSet : CallExperiment(e[1], e[2])
    \/ ReturnToCaller
    \/ Skipped
    \/ CacheHit
    \/ PreconditionFailed
    \/ \E post \in PostOutcomes : SubmitRejected(post)
    \/ \E post \in PostOutcomes : SubmitRaised(post)
    \/ \E post \in PostOutcomes : SubmitAccepted(post)
    \/ \E r \in PollOutcomes, d \in DurationSet : PollRaised(r, d)
    \/ \E r \in PollOutcomes, d \in DurationSet : PollNot200(r, d)
    \/ \E r \in PollOutcomes, d \in DurationSet : PollPending(r, d)
    \/ \E r \in PollOutcomes, d \in DurationSet : PollOk(r, d)
    \/ \E r \in PollOutcomes, d \in DurationSet : PollSolved(r, d)
    \/ \E r \in PollOutcomes, d \in DurationSet : PollFailed(r, d)
    \/ TimedOut
    \/ RunAllNothingToRun
    \/ RunAllStart
    \/ BatchCall
    \/ BatchAccount
    \/ BatchFinish
    \/ ReturnFromBatch

Spec == Init /\ [][Next]_vars

\* The runner is one sequential thread and every request carries a timeout
\* (lines 394, 428), so a step that can be taken is taken.
FairSpec == Spec /\ WF_vars(Next)

\* --------------------------------------------------- a results file that fails
\* lines 451-461 and 498-499: a plan is found and the write of the results file raises
\* OSError, at open (no file is made) or in json.dump (the file is left truncated);
\* the handler of line 498 swallows the exception and the loop goes on
PollSolvedWriteRaises(r, d, truncated) ==
    /\ Polling
    /\ Parsed(r)
    /\ StatusIs(r.json[1], {"ok"})
    /\ PlanFound(PlanOf(r.json[1]))
    /\ poll_responses' = Append(poll_responses, PollRecord(r.json[1], now + d))
    /\ result_data' = WithPlan(AfterOk(result_data, r.json[1], now + d), PlanOf(r.json[1]))
    /\ results_dir' =
          IF truncated
            THEN Put(results_dir, ResultFile(args.domain, args.planner, args.problem),
                     [kind |-> "garbage"])
            ELSE results_dir
    /\ gets' = gets + 1
    /\ last_resp' = r
    /\ SleepAfter(d)
    /\ UNCHANGED <<debug_dir, wrote, written, last_debug_state, calls, pc, caller, args,
                   timeout, result_url, start, ret, outcome, last_progress,
                   debug_save_count, posts, post_resp, batch>>

FaultNext ==
    \/ Next
    \/ \E r \in PollOutcomes, d \in DurationSet, truncated \in BOOLEAN :
          PollSolvedWriteRaises(r, d, truncated)

FaultSpec == Init /\ [][FaultNext]_vars

\* ------------------------------------------------- the methods called alone
\* A caller holding a constructed runner calls its helper methods directly, in
\* any order, one call at a time: `caller` names the method, `args` holds the
\* arguments and `ret` the value returned.
UnitPlanners == {planners[i] : i \in 1..Len(planners)} \cup {"ff"}
UnitProblems ==
    { Instance(<<"1">>), Instance(<<"3">>), Instance(<<"3", "0">>), Instance(<<"1", "3">>),
      Problema(<<"0", "1">>, "facil"), Problema(<<"0", "1">>, "medio"),
      Problema(<<"0", "1">>, "dificil"),
      <<"prob", "LOGISTICS-", "4", "-", "0", ".pddl">>,
      <<"prob", "LOGISTICS-", "5", "-", "0", ".pddl">>,
      <<"prob", "LOGISTICS-", "1", "5", "-", "0", ".pddl">>,
      <<"problema_", "facil", "_", "medio", ".pddl">>,
      <<"medio", "_", "instance-", "2", ".pddl">>,
      <<"default", ".pddl">>, <<"other", ".pddl">>, <<>> }

\* lines of solver output
LineFoo == <<"(", "foo", "a", "b", ")">>
LineUpper == <<"(", "PICK-UP", "A", ")">>
LineTemporal == <<"0.000:", "(", "stack", "a", "b", ")", "[1.000]">>
LineNumbered == <<"1:", "(", "pick-up", "a", ")">>
LineStep == <<"step", "1:", "PICK-UP", "A">>
LineComment == <<";", "cost">>
LineSolution == <<"Solution", "found!">>
LineUnstack == <<"unstack", "a", "b">>
LineSignal == <<"caught", "signal", "15">>
LineExiting == <<"exiting">>
LinePlanLength == <<"Plan", "length:", "1">>
LinePlanCost == <<"Plan", "cost:", "1">>
LineSearchTime == <<"Actual", "search", "time:", "t=1.5s,">>
\* a prologue line followed by one line of the plan
UnitMarkerTexts ==
    { <<m, l>> : m \in {LineSolution, LinePlanLength, LinePlanCost, LineSearchTime},
                 l \in {LinePickUp, LineUpper, LineUnstack, LineNumbered, LineFoo} }
UnitLines ==
    { LinePickUp, LineStack, LineGrasp, LineFoo, LineUpper, LineTemporal, LineNumbered,
      LineStep, LineComment, LineSolution, LineUnstack, LineSignal, LineExiting }
\* texts of at most MaxLines lines
UnitTexts == UNION {[1..n -> UnitLines] : n \in 0..MaxLines}
UnitShortTexts ==
    { <<>>, <<LinePickUp>>, <<LineFoo>>, <<LineSignal>>, <<LineStack, LineSignal>>,
      <<LineSolution, LineUnstack>> }
\* the 'result' field of a poll response
UnitPayloads ==
    {[stdout |-> t] : t \in UnitTexts}
      \cup {[output |-> [plan |-> a], stdout |-> b] : a, b \in UnitShortTexts}
      \cup {[output |-> [plan |-> a, sas_plan |-> b]] : a, b \in UnitShortTexts}
      \cup {[output |-> [sas_plan |-> a], stdout |-> b] : a, b \in UnitShortTexts}
      \cup {[stdout |-> t] : t \in UnitMarkerTexts}
      \cup {[output |-> EmptyDict], EmptyDict}
UnitDomains == {"blocksworld", "barman", "gripper"}


\* the keys check_existing_result is asked about, and a results directory that
\* holds a file for eight of them
UnitKeys ==
    { <<domain, planner, problem>> :
         domain \in {"blocksworld", "barman"}, planner \in {"lama-first", "delfi"},
         problem \in {Problema(<<"0", "1">>, "facil"), Instance(<<"1">>), Instance(<<"3">>)} }
UnitResults ==
    (ResultFile("blocksworld", "lama-first", Problema(<<"0", "1">>, "facil")) :>
        JsonFile([solved |-> TRUE, plan_length |-> 1, plan |-> <<LinePickUp>>]))
    @@ (ResultFile("blocksworld", "lama-first", Instance(<<"1">>)) :> [kind |-> "unreadable"])
    @@ (ResultFile("blocksworld", "lama-first", Instance(<<"3">>)) :> [kind |-> "garbage"])
    @@ (ResultFile("blocksworld", "delfi", Problema(<<"0", "1">>, "facil")) :>
        [kind |-> "json_value", data |-> <<1, 2>>])
    @@ (ResultFile("blocksworld", "delfi", Instance(<<"1">>)) :>
        [kind |-> "json_mistyped", data |-> [solved |-> TRUE, plan_length |-> "2"]])
    @@ (ResultFile("blocksworld", "delfi", Instance(<<"3">>)) :>
        [kind |-> "json_mistyped", data |-> [solved |-> FALSE, plan_length |-> "2"]])
    @@ (ResultFile("barman", "lama-first", Problema(<<"0", "1">>, "facil")) :>
        JsonFile(EmptyDict))
    @@ (ResultFile("barman", "lama-first", Instance(<<"1">>)) :>
        JsonFile([solved |-> TRUE, plan_length |-> 0, plan |-> <<>>]))

UnitInit ==
    /\ results_dir = UnitResults
    /\ debug_dir = {}
    /\ last_debug_state = EmptyDict
    /\ wrote = {}
    /\ calls = 0
    /\ pc = "unit"
    /\ caller = None
    /\ args = NoArgs
    /\ timeout = 0 /\ result_data = EmptyDict /\ result_url = None /\ start = 0 /\ now = 0
    /\ last_progress = 0 /\ poll_responses = <<>> /\ debug_save_count = 0
    /\ ret = <<>> /\ outcome = None /\ posts = 0 /\ gets = 0 /\ written = <<>>
    /\ post_resp = NoResp /\ last_resp = NoResp
    /\ to_run = <<>> /\ idx = 0 /\ stats = EmptyDict /\ batch_ret = <<>>

\* what a call of a helper method leaves alone besides the runner's own fields
UnitRest == <<wrote, calls, locals, outcome, posts, gets, post_resp, last_resp, written,
              batch>>

\* runner.get_timeout(planner, problem)
UnitGetTimeout(planner, problem) ==
    /\ pc = "unit"
    /\ pc' = "unit_done"
    /\ caller' = "get_timeout"
    /\ args' = [planner |-> planner, problem |-> problem]
    /\ ret' = <<get_timeout(planner, problem)>>
    /\ UNCHANGED <<results_dir, debug_dir, last_debug_state, UnitRest>>

\* runner.extract_plan(result, planner, domain)
UnitExtractPlan(result, planner, domain) ==
    /\ pc = "unit"
    /\ pc' = "unit_done"
    /\ caller' = "extract_plan"
    /\ args' = [result |-> result, planner |-> planner, domain |-> domain]
    /\ ret' = <<extract_plan(result, planner, domain)>>
    /\ UNCHANGED <<results_dir, debug_dir, last_debug_state, UnitRest>>

\* progress snapshots, and the experiments they are taken for
UnitSnapshots ==
    { EmptyDict,
      [evaluated |-> 100, current_f |-> 7],
      [evaluated |-> 150, current_f |-> 7],
      [evaluated |-> 1300, current_f |-> 7],
      [evaluated |-> 150, current_f |-> 8] }
UnitExperiments ==
    { <<"delfi", "blocksworld", Problema(<<"0", "1">>, "facil")>>,
      <<"lama-first", "blocksworld", Problema(<<"0", "1">>, "facil")>> }

\* runner.should_save_debug(planner, domain, problem, progress_info)
UnitShouldSaveDebug(e, progress_info) ==
    /\ pc = "unit"
    /\ pc' = "unit_done"
    /\ caller' = "should_save_debug"
    /\ args' = [planner |-> e[1], domain |-> e[2], problem |-> e[3],
                progress_info |-> progress_info]
    /\ ret' = <<should_save_debug(last_debug_state, e[1], e[2], e[3], progress_info)>>
    /\ last_debug_state' = DebugStateAfter(last_debug_state, e[1], e[2], e[3], progress_info)
    /\ UNCHANGED <<results_dir, debug_dir, UnitRest>>

\* runner.check_existing_result(domain, planner, problem): the file is opened for
\* reading only (line 242)
UnitCheckExisting(domain, planner, problem) ==
    /\ pc = "unit"
    /\ pc' = "unit_done"
    /\ caller' = "check_existing_result"
    /\ args' = [domain |-> domain, planner |-> planner, problem |-> problem]
    /\ ret' = <<check_existing_result(results_dir, domain, planner, problem)>>
    /\ UNCHANGED <<results_dir, debug_dir, last_debug_state, UnitRest>>

\* the caller has the value
UnitReturn ==
    /\ pc = "unit_done"
    /\ pc' = "unit"
    /\ caller' = None
    /\ args' = NoArgs
    /\ ret' = <<>>
    /\ UNCHANGED <<results_dir, debug_dir, last_debug_state, UnitRest>>

UnitNext ==
    \/ UnitReturn
    \/ \E result \in UnitPayloads, planner \in {"lama-first", "delfi"}, domain \in UnitDomains :
          UnitExtractPlan(result, planner, domain)
    \/ \E e \in UnitExperiments, progress_info \in UnitSnapshots :
          UnitShouldSaveDebug(e, progress_info)
    \/ \E planner \in UnitPlanners, problem \in UnitProblems : UnitGetTimeout(planner, problem)
    \/ \E k \in UnitKeys : UnitCheckExisting(k[1], k[2], k[3])

UnitSpec == UnitInit /\ [][UnitNext]_vars

\* ------------------------------------------------------ one polling session
\* delfi is asked for SessionProblem and the service works on it for a long time.
\* Its search log, with the f value it reports
SessionLog(f) ==
    << <<"f", "=", f, "[g=5,", "100", "evaluated,", "300", "expanded,", "t=1.5s,">> >>
PendingResp == [kind |-> "http", status_code |-> 200, json |-> <<[status |-> "running"]>>]
OkNoStdout == [kind |-> "http", status_code |-> 200,
               json |-> <<[status |-> "ok", result |-> EmptyDict]>>]
\* what a poll finds while the search goes on
SessionOutcomes ==
    { [kind |-> "exception", msg |-> "Connection refused"],
      [kind |-> "http", status_code |-> 200,
       json |-> <<[status |-> "ok", result |-> [stdout |-> SessionLog("7")]]>>],
      [kind |-> "http", status_code |-> 200,
       json |-> <<[status |-> "ok", result |-> [stdout |-> SessionLog("8")]]>>],
      OkNoStdout }
\* ... and the responses that end the session
SessionEnds ==
    { [kind |-> "http", status_code |-> 200,
       json |-> <<[status |-> "ok", result |-> BlocksPlanResult]>>],
      [kind |-> "http", status_code |-> 200, json |-> <<[status |-> "failed"]>>] }

SessionInit ==
    /\ results_dir = EmptyDict
    /\ debug_dir = {}
    /\ last_debug_state = EmptyDict
    /\ wrote = {}
    /\ calls = 1
    /\ pc = "run"
    /\ caller = "single"
    /\ args = ArgsOf("delfi", SessionProblem)
    /\ timeout = 0 /\ result_data = EmptyDict /\ result_url = None /\ start = 0 /\ now = 0
    /\ last_progress = 0 /\ poll_responses = <<>> /\ debug_save_count = 0
    /\ ret = <<>> /\ outcome = None /\ posts = 0 /\ gets = 0 /\ written = <<>>
    /\ post_resp = NoResp /\ last_resp = NoResp
    /\ to_run = <<>> /\ idx = 0 /\ stats = EmptyDict /\ batch_ret = <<>>

\* polls that did not advance the clock, and polls that failed, so far
Stalls == gets - (now - start)
Faults == gets - Len(poll_responses)

\* lines 426-499, one pass through the loop that does not end the call: the GET is
\* answered at once and the pass, sleep included, takes adv ticks
SessionPoll(r, adv) ==
    /\ Polling
    /\ IF gets < MaxEarlyPolls
         THEN r = PendingResp /\ adv = 0
         ELSE /\ r \in SessionOutcomes
              /\ adv = 0 => Stalls < MaxEarlyPolls + MaxStalls
              /\ Raises(r) => Faults < MaxFaults
    /\ gets' = gets + 1
    /\ last_resp' = r
    /\ now' = now + adv
    /\ IF Raises(r) \/ Not200(r)
         THEN UNCHANGED <<debug_dir, last_debug_state, result_data, last_progress,
                          poll_responses, debug_save_count, written>>
         ELSE IF StatusIs(r.json[1], {"ok"})
           THEN KeepPolling(r.json[1], now, AfterOk(result_data, r.json[1], now))
           ELSE /\ poll_responses' = Append(poll_responses, PollRecord(r.json[1], now))
                /\ UNCHANGED <<debug_dir, last_debug_state, result_data, last_progress,
                               debug_save_count, written>>
    /\ UNCHANGED <<results_dir, wrote, calls, pc, caller, args, timeout, result_url, start, ret,
                   outcome, posts, post_resp, batch>>

SessionNext ==
    \/ \E post \in PostOutcomes : SubmitAccepted(post)
    \/ \E r \in SessionOutcomes \cup {PendingResp}, adv \in 0..1 : SessionPoll(r, adv)
    \/ \E r \in SessionEnds : PollSolved(r, 0)
    \/ \E r \in SessionEnds : PollFailed(r, 0)
    \/ TimedOut

SessionSpec == SessionInit /\ [][SessionNext]_vars

\* ==================================================================== claims
\* the key of the running call is in the blacklist
InBlacklist(a) == <<a.planner, a.domain, a.problem>> \in blacklist
\* the experiment key a file of the results or debug directory is named after
KeyOfFile(f) == <<f.planner, f.domain, f.problem \o <<".pddl">>>>
\* the results file of the running call, and whether it holds a success artifact
ArtifactName(a) == ResultFile(a.domain, a.planner, a.problem)
ArtifactPasses(a) ==
    /\ ArtifactName(a) \in DOMAIN results_dir
    /\ results_dir[ArtifactName(a)].kind = "json"
    /\ Get(results_dir[ArtifactName(a)].data, "solved", FALSE)
    /\ Get(results_dir[ArtifactName(a)].data, "plan_length", 0) > 0
InCall == pc \in {"run", "polling", "returned"}
\* the running call has not written its results file
NoResultWritten == \A i \in 1..Len(written) : written[i].dir # "results"

(***************************************************************************)
(* C1: for a key in the blacklist neither entry point issues a POST or a   *)
(* GET or writes a file for the key, whatever the results directory holds; *)
(* the single call returns the skipped result, not the cached one.         *)
(***************************************************************************)
C1_BlacklistedNeverSubmitted ==
    /\ InBlacklist(args) =>
          /\ posts = 0 /\ gets = 0 /\ written = <<>>
          /\ pc = "returned" =>
                ret = <<[solved |-> FALSE, error |-> "Blacklisted", skipped |-> TRUE]>>
    /\ \A i \in 1..Len(to_run) :
          <<to_run[i][1], to_run[i][2][1], to_run[i][2][2]>> \notin blacklist
    /\ \A n \in wrote : KeyOfFile(n) \notin blacklist
    /\ \A f \in debug_dir : f.kind # "run_summary" => KeyOfFile(f) \notin blacklist

\* a blacklisted key with a valid success artifact has been asked for and skipped
C1_Witness ==
    /\ pc = "returned" /\ outcome = "Skipped"
    /\ InBlacklist(args) /\ ArtifactPasses(args)

(***************************************************************************)
(* C2: a call for a key that is not blacklisted and whose success artifact *)
(* passes the cache check ends in CacheHit: it returns the artifact's      *)
(* content unchanged, issues no POST and no GET, and writes nothing.       *)
(***************************************************************************)
C2_CacheHitReturnsCached ==
    (InCall /\ ~InBlacklist(args) /\ ArtifactPasses(args) /\ NoResultWritten) =>
        /\ posts = 0 /\ gets = 0 /\ written = <<>>
        /\ pc # "polling"
        /\ pc = "returned" =>
              /\ outcome = "CacheHit"
              /\ ret = <<results_dir[ArtifactName(args)].data>>

\* a call has returned the content of an artifact that was there before it
C2_Witness ==
    /\ pc = "returned" /\ outcome = "CacheHit"
    /\ ~InBlacklist(args) /\ ArtifactPasses(args)
    /\ ret[1].plan_length > 0

\* the experiments the entry points are asked for, as argument records
ClaimKeys ==
    {ArgsOf(e[1], e[2]) : e \in CallSet \cup {MatrixOrder[k] : k \in DOMAIN MatrixOrder}}
MatrixKeys == {ArgsOf(MatrixOrder[k][1], MatrixOrder[k][2]) : k \in DOMAIN MatrixOrder}
Check(a) == check_existing_result(results_dir, a.domain, a.planner, a.problem)
\* the artifact of a key has solved = true and plan_length = len(plan) > 0
ArtifactConsistent(a) ==
    /\ ArtifactPasses(a)
    /\ results_dir[ArtifactName(a)].data.solved = TRUE
    /\ results_dir[ArtifactName(a)].data.plan_length
         = Len(Get(results_dir[ArtifactName(a)].data, "plan", <<>>))
\* run_all_experiments has just built its work list
BatchStarted == pc = "batch" /\ idx = 1
WorkList == {ArgsOf(to_run[i][1], to_run[i][2]) : i \in 1..Len(to_run)}

(***************************************************************************)
(* C3, as claimed: check_existing_result reports exists = true only for an *)
(* artifact with solved = true and plan_length = len(plan) > 0, and the    *)
(* batch re-runs every key whose artifact is not of that kind.             *)
(***************************************************************************)
C3_Claimed_ExistsOnlyIfLengthsAgree ==
    /\ InCall => (Check(args).exists => ArtifactConsistent(args))
    /\ BatchStarted =>
          \A a \in MatrixKeys : (~InBlacklist(a) /\ ~ArtifactConsistent(a)) => a \in WorkList

(***************************************************************************)
(* C3, amended: check_existing_result reports exists = true exactly for a  *)
(* readable JSON artifact with solved = true and plan_length > 0, and then *)
(* returns its content; the length of the stored plan is not compared with *)
(* plan_length.  A missing or unreadable artifact, one with solved false   *)
(* or one with plan_length <= 0 is a cache miss, and the batch re-runs     *)
(* exactly the keys that are not blacklisted and miss.                     *)
(***************************************************************************)
C3_ExistsIffSolvedAndPositiveLength ==
    /\ \A a \in ClaimKeys :
          IF ArtifactPasses(a)
            THEN Check(a) = [exists |-> TRUE, data |-> <<results_dir[ArtifactName(a)].data>>]
            ELSE Check(a) = [exists |-> FALSE, data |-> <<>>]
    /\ BatchStarted =>
          WorkList = {a \in MatrixKeys : ~InBlacklist(a) /\ ~ArtifactPasses(a)}

\* a batch has left out a key whose artifact says plan_length 2 and holds one action
C3_Witness ==
    /\ BatchStarted
    /\ \E a \in MatrixKeys :
          /\ ~InBlacklist(a) /\ ArtifactPasses(a) /\ ~ArtifactConsistent(a)
          /\ a \notin WorkList

(***************************************************************************)
(* C4: every file this runner has written into the results directory is a  *)
(* success artifact: solved = true, plan_length = len(plan), plan_length   *)
(* > 0, after any poll responses and any sequence of experiments.          *)
(***************************************************************************)
C4_WrittenResultsAreSuccess ==
    \A n \in wrote :
        /\ n \in DOMAIN results_dir
        /\ results_dir[n].kind = "json"
        /\ results_dir[n].data.solved = TRUE
        /\ results_dir[n].data.plan_length = Len(results_dir[n].data.plan)
        /\ results_dir[n].data.plan_length > 0

\* one batch has written two results files
C4_Witness == Cardinality(wrote) >= 2 /\ pc = "batch_returned"

\* what a response of the service says, read off the response itself
Answered(r) == r.kind = "http" /\ r.status_code = 200 /\ r.json # <<>>
RespStatus(r) == IF Answered(r) THEN Get(r.json[1], "status", None) ELSE None
RespPlan(r) ==
    IF Answered(r) /\ "result" \in DOMAIN r.json[1]
      THEN extract_plan(r.json[1].result, args.planner, args.domain)
      ELSE <<>>
\* this step issues a poll GET
Polled == gets' = gets + 1
\* a GET is issued only by the polling loop
PollsOnlyInLoop == Polled => pc = "polling"
Elapsed == now - start
FailedWrite(rd) == Write("debug", DebugFile("FAILED", args), rd)

(***************************************************************************)
(* C5: in the polling loop the first response with status "ok" and a plan  *)
(* that is not empty ends the loop: the success artifact of the key is     *)
(* written, the result is returned with solved = true, and no GET follows; *)
(* an "ok" response with an empty plan does not end the loop.              *)
(***************************************************************************)
C5_FirstPlanEndsLoop ==
    [][ /\ PollsOnlyInLoop
        /\ (Polled /\ RespStatus(last_resp') = "ok") =>
              IF RespPlan(last_resp') # <<>>
                THEN /\ pc' = "returned" /\ outcome' = "Solved"
                     /\ ret'[1].solved = TRUE
                     /\ ret'[1].plan = RespPlan(last_resp')
                     /\ ArtifactName(args) \in DOMAIN results_dir'
                     /\ results_dir'[ArtifactName(args)] = JsonFile(ret'[1])
                     /\ written' = Append(written, Write("results", ArtifactName(args), ret'[1]))
                ELSE /\ pc' = "polling" /\ ret' = <<>>
                     /\ results_dir' = results_dir
      ]_vars

\* a second response brought the plan, after an "ok" response without one
C5_Witness ==
    /\ outcome = "Solved" /\ gets = 2
    /\ Len(poll_responses) = 2 /\ poll_responses[1].status = "ok"

(***************************************************************************)
(* C6: a poll response with status "error" or "failed" ends the loop at    *)
(* once: the _FAILED artifact is written, the result returned has solved = *)
(* false and error "Planning failed", no GET follows, and the response     *)
(* does not lead to Solved even when it carries plan text.                 *)
(***************************************************************************)
C6_ErrorStatusEndsLoop ==
    [][ /\ PollsOnlyInLoop
        /\ (Polled /\ RespStatus(last_resp') \in {"error", "failed"}) =>
              /\ pc' = "returned" /\ outcome' = "Failed"
              /\ ret'[1].solved = FALSE
              /\ ret'[1].error = "Planning failed"
              /\ DebugFile("FAILED", args) \in debug_dir'
              /\ written' = Append(written, FailedWrite(ret'[1]))
              /\ results_dir' = results_dir
      ]_vars

\* the loop ended in Failed on a response whose text holds a plan
C6_Witness ==
    /\ outcome = "Failed"
    /\ RespStatus(last_resp) = "error" /\ RespPlan(last_resp) # <<>>

(***************************************************************************)
(* C7: TimedOut (timeout artifact, error "Extended timeout reached") comes *)
(* only when the time since submission has reached get_timeout(planner,    *)
(* problem), and at most one iteration, a GET and a sleep, after that; so  *)
(* it is for an experiment whose polls all say "ok" without a plan.        *)
(***************************************************************************)
C7_TimedOutOnlyAtTimeout ==
    outcome = "TimedOut" =>
        /\ pc = "returned"
        /\ ret[1].error = "Extended timeout reached"
        /\ ret[1].solved = FALSE
        /\ ret[1].time = Elapsed
        /\ Elapsed * TimeUnit >= get_timeout(args.planner, args.problem)
        /\ (Elapsed - (GetTicks + SleepTicks)) * TimeUnit
              < get_timeout(args.planner, args.problem)
        /\ StampedFile("TIMEOUT", args, now) \in debug_dir
        /\ Len(written) > 0
        /\ written[Len(written)].name = StampedFile("TIMEOUT", args, now)

\* two polls, both "ok" without a plan, and then the timeout
C7_Witness ==
    /\ outcome = "TimedOut" /\ gets = 2 /\ Len(poll_responses) = 2
    /\ \A i \in 1..2 : poll_responses[i].status = "ok"
    /\ ret[1].plan = <<>>

\* the POST is answered with a status other than 200, or with JSON without 'result'
PostRefused(r) ==
    IF r.kind # "http" THEN FALSE
    ELSE IF r.status_code # 200 THEN TRUE
    ELSE r.json # <<>> /\ "result" \notin DOMAIN r.json[1]
\* the POST is answered 200 with a body that is not JSON
PostMalformed(r) == r.kind = "http" /\ r.status_code = 200 /\ r.json = <<>>
\* the GET raises, is answered with a status other than 200, or with a body that is not JSON
Transient(r) ==
    IF r.kind = "exception" THEN TRUE
    ELSE IF r.kind # "http" THEN FALSE
    ELSE r.status_code # 200 \/ r.json = <<>>
Posted == posts' = posts + 1
TimeLeft == Elapsed * TimeUnit < get_timeout(args.planner, args.problem)

(***************************************************************************)
(* C8: when the submission POST is answered with a status other than 200,  *)
(* or with 200 and no 'result' field, the call ends at once in SubmitError *)
(* (a 200 body that is no JSON ends it through the handler of line 519):   *)
(* the _FAILED artifact is written, the result returned has solved =       *)
(* false, and no poll GET is issued for the experiment.                    *)
(***************************************************************************)
C8_RefusedSubmissionIsSubmitError ==
    [][ /\ (Posted /\ (PostRefused(post_resp') \/ PostMalformed(post_resp'))) =>
              /\ pc' = "returned"
              /\ outcome' = IF PostRefused(post_resp') THEN "SubmitError" ELSE "Exception"
              /\ ret'[1].solved = FALSE
              /\ ret'[1].error # None
              /\ DebugFile("FAILED", args) \in debug_dir'
              /\ written' = <<FailedWrite(ret'[1])>>
              /\ gets' = 0
              /\ results_dir' = results_dir
        /\ Polled =>
              /\ posts = 1
              /\ Answered(post_resp) /\ "result" \in DOMAIN post_resp.json[1]
      ]_vars

\* a submission answered 200 without 'result' has ended in SubmitError
C8_Witness ==
    /\ outcome = "SubmitError" /\ post_resp.status_code = 200
    /\ gets = 0 /\ DebugFile("FAILED", args) \in debug_dir

(***************************************************************************)
(* C9: the polling loop is left only by a terminal response (Solved,       *)
(* Failed) or when the elapsed time has reached the timeout.  A GET that   *)
(* raises, a body that does not parse and a response that is not 200 are   *)
(* swallowed: the result, the outcome and the directories stay as they     *)
(* were, the loop sleeps, and while time is left its next step is a poll.  *)
(***************************************************************************)
C9_TransientPollErrorsAreSwallowed ==
    [][ /\ (Polled /\ Transient(last_resp')) =>
              /\ pc' = "polling" /\ outcome' = None /\ ret' = <<>>
              /\ result_data' = result_data
              /\ poll_responses' = poll_responses
              /\ fs' = fs /\ written' = written /\ posts' = posts
              /\ now' >= now + SleepTicks
              /\ now' <= now + GetTicks + SleepTicks
        /\ (pc = "polling" /\ pc' # "polling") =>
              \/ Polled /\ outcome' = "Solved" /\ RespStatus(last_resp') = "ok"
              \/ Polled /\ outcome' = "Failed" /\ RespStatus(last_resp') \in {"error", "failed"}
              \/ ~Polled /\ outcome' = "TimedOut" /\ ~TimeLeft
        /\ (pc = "polling" /\ TimeLeft) => Polled
      ]_vars

\* a poll failed, the next one was made and brought the plan
C9_Witness ==
    /\ outcome = "Solved" /\ gets = 2
    /\ Len(poll_responses) = 1

(***************************************************************************)
(* C10, as claimed: every terminal error of an experiment (submission      *)
(* error, planning failure, timeout, and domain not loaded or problem file *)
(* missing) has left a diagnostic artifact for the experiment in the debug *)
(* directory when the call returns.                                        *)
(***************************************************************************)
C10_Claimed_TerminalErrorsLeaveArtifact ==
    (pc = "returned"
       /\ outcome \in {"SubmitError", "Exception", "Failed", "TimedOut", "LocalError"}) =>
        \E f \in debug_dir :
            /\ f.kind \in {"FAILED", "TIMEOUT"}
            /\ KeyOfFile(f) = <<args.planner, args.domain, args.problem>>

\* the i-th experiment of the work list is being started by the batch
BatchRuns(i) ==
    /\ pc = "run" /\ caller = "batch" /\ idx = i
    /\ args = ArgsOf(to_run[i][1], to_run[i][2])

(***************************************************************************)
(* C11: no outcome of an experiment aborts run_all_experiments.  The batch *)
(* starts the experiments of its work list in list order, the next one     *)
(* only after the previous one has returned, whatever that one returned;   *)
(* it returns only after the last one; and whenever the loop stands before *)
(* an experiment of the work list, that experiment is eventually started.  *)
(***************************************************************************)
C11_BatchRunsWholeWorkList ==
    /\ [][ /\ (pc = "batch" /\ pc' = "run") =>
                 /\ idx \in 1..Len(to_run) /\ idx' = idx /\ to_run' = to_run
                 /\ caller' = "batch"
                 /\ args' = ArgsOf(to_run[idx][1], to_run[idx][2])
           /\ (pc = "returned" /\ caller = "batch") =>
                 /\ pc' = "batch" /\ idx' = idx + 1 /\ to_run' = to_run
           /\ (pc \in {"batch", "run", "polling"} /\ caller \in {None, "batch"} /\ idx > 0) =>
                 /\ to_run' = to_run /\ idx' = idx
           /\ (pc = "batch" /\ pc' = "batch_returned") => idx = Len(to_run) + 1
           /\ (pc' = "batch_returned" /\ pc # "batch_returned") => pc \in {"batch", "idle"}
         ]_vars
    /\ (pc = "batch" /\ idx <= Len(to_run)) ~> (idx <= Len(to_run) /\ BatchRuns(idx))

\* an experiment is started after one before it failed and one timed out
C11_Witness ==
    /\ \E i \in 3..Len(MatrixOrder) : i <= Len(to_run) /\ BatchRuns(i)
    /\ stats.failed >= 1 /\ stats.timeout >= 1

\* the keys of the matrix that are neither blacklisted nor hold a success artifact
ExpectedWork == {a \in MatrixKeys : ~InBlacklist(a) /\ ~ArtifactPasses(a)}

(***************************************************************************)
(* C12: the work list run_all_experiments builds is exactly the matrix     *)
(* minus the blacklisted keys minus the keys whose artifact passes the     *)
(* cache test at batch start, each key once; the batch calls and submits   *)
(* only keys of that list, none of them twice; and when the set is empty   *)
(* it returns without a call, a request or a write.                        *)
(***************************************************************************)
C12_BatchRunsExactlyTheWorkSet ==
    [][ /\ (pc = "idle" /\ pc' = "batch") =>
              /\ WorkList' = ExpectedWork
              /\ Len(to_run') = Cardinality(ExpectedWork)
              /\ ExpectedWork # {}
        /\ (pc = "idle" /\ pc' = "batch_returned") =>
              /\ ExpectedWork = {}
              /\ posts' = 0 /\ gets' = 0 /\ fs' = fs /\ to_run' = <<>>
        /\ (pc = "batch_returned" /\ to_run = <<>>) =>
              /\ pc' = "idle" /\ posts' = 0 /\ gets' = 0 /\ fs' = fs
        /\ (pc = "batch" /\ pc' = "run") =>
              /\ args' \in WorkList
              /\ \A j \in 1..(idx - 1) : to_run[j] # to_run[idx]
        /\ ((Posted \/ Polled) /\ caller = "batch") =>
              /\ args \in WorkList
              /\ args = ArgsOf(to_run[idx][1], to_run[idx][2])
      ]_vars

\* a batch has run a work list that leaves out a cached key of the matrix
C12_Witness ==
    /\ pc = "batch_returned" /\ Len(to_run) >= 2
    /\ \E a \in MatrixKeys : ~InBlacklist(a) /\ ArtifactPasses(a) /\ a \notin WorkList
    /\ \E a \in MatrixKeys : InBlacklist(a)

\* this runner has written the success artifact of the key of the call
SolvedBefore(a) == ArtifactName(a) \in wrote

(***************************************************************************)
(* C13: re-running is idempotent for solved work.  When a call ends in     *)
(* Solved, check_existing_result finds for its key the plan and the        *)
(* plan_length the call returns; from then on the artifact is never        *)
(* written again, a call for the key returns its content as a cache hit    *)
(* without a POST or a GET, and no batch puts the key on its work list.    *)
(***************************************************************************)
C13_SolvedWorkIsNotRerun ==
    [][ /\ (pc' = "returned" /\ outcome' = "Solved") =>
              /\ Check(args)'.exists
              /\ Check(args)'.data[1].plan = ret'[1].plan
              /\ Check(args)'.data[1].plan_length = ret'[1].plan_length
              /\ SolvedBefore(args)'
        /\ \A f \in wrote : f \in DOMAIN results_dir' /\ results_dir'[f] = results_dir[f]
        /\ (pc = "run" /\ SolvedBefore(args)) =>
              /\ pc' = "returned" /\ outcome' = "CacheHit"
              /\ ret' = <<results_dir[ArtifactName(args)].data>>
              /\ posts' = 0 /\ gets' = 0 /\ written' = <<>> /\ fs' = fs
        /\ (Posted \/ Polled) => ~SolvedBefore(args)
        /\ (pc = "idle" /\ pc' = "batch") => \A a \in WorkList' : ~SolvedBefore(a)
      ]_vars

\* a second call for a key this runner has solved returns the artifact
C13_Witness ==
    /\ pc = "returned" /\ outcome = "CacheHit" /\ SolvedBefore(args)
    /\ calls = 2 /\ posts = 0

\* the table of a planner as declared, empty for a planner without one
TimeoutTable(planner) ==
    IF planner \in DOMAIN extended_timeouts THEN extended_timeouts[planner] ELSE <<>>
\* the i-th key of the table is the first that occurs in the name
FirstMatch(table, name, i) ==
    /\ IsSubstring(table[i][1], name)
    /\ \A j \in 1..(i - 1) : ~IsSubstring(table[j][1], name)

(***************************************************************************)
(* C14: get_timeout returns a positive integer for every planner and name: *)
(* the value of the first key of the planner's table, in declaration       *)
(* order, that is a substring of the name; the table's "default" entry     *)
(* when no key is; and 1800 for a planner without a table.                 *)
(***************************************************************************)
C14_TimeoutIsFirstMatchOrDefault ==
    (pc = "unit_done" /\ caller = "get_timeout") =>
        LET table == TimeoutTable(args.planner)
            value == ret[1]
        IN  /\ value \in Nat \ {0}
            /\ \A i \in 1..Len(table) : FirstMatch(table, args.problem, i) => value = table[i][2]
            /\ (\A i \in 1..Len(table) : ~IsSubstring(table[i][1], args.problem)) =>
                  IF table = <<>> THEN value = 1800
                  ELSE \E i \in 1..Len(table) :
                          table[i][1] = <<"default">> /\ value = table[i][2]
            /\ (args.planner = "delfi" /\ args.problem = Instance(<<"3">>)) => value = 7200

\* a name in which two keys with different values occur got the value of the first
C14_Witness ==
    /\ pc = "unit_done" /\ caller = "get_timeout"
    /\ \E i, j \in 1..Len(TimeoutTable(args.planner)) :
          /\ i < j
          /\ FirstMatch(TimeoutTable(args.planner), args.problem, i)
          /\ IsSubstring(TimeoutTable(args.planner)[j][1], args.problem)
          /\ TimeoutTable(args.planner)[i][2] # TimeoutTable(args.planner)[j][2]
          /\ ret[1] = TimeoutTable(args.planner)[i][2]

\* the valid actions of a domain as declared, none for a domain without a list
Vocabulary(domain) ==
    IF domain \in DOMAIN domain_actions
      THEN {domain_actions[domain][i] : i \in 1..Len(domain_actions[domain])}
      ELSE {}
ExtractCalled == pc = "unit_done" /\ caller = "extract_plan"

(***************************************************************************)
(* C15: every element of the sequence extract_plan returns has the form    *)
(* "(action params)": it opens and closes with a parenthesis, holds no     *)
(* upper-case token, and its first token is a valid action of the domain.  *)
(* A line "(foo a b)" contributes no action, and for a domain without a    *)
(* list of valid actions the plan is empty.                                *)
(***************************************************************************)
C15_PlanActionsAreGated ==
    ExtractCalled =>
        /\ \A k \in 1..Len(ret[1]) :
              LET a == ret[1][k]
              IN  /\ Len(a) >= 3 /\ a[1] = "(" /\ a[Len(a)] = ")"
                  /\ a[2] \in Vocabulary(args.domain)
                  /\ \A i \in 1..Len(a) : a[i] \notin {"PICK-UP", "STACK", "A", "B", "STEP"}
                  /\ a[2] # "foo"
        /\ Vocabulary(args.domain) = {} => ret[1] = <<>>
        /\ args.result = [stdout |-> <<LineFoo>>] => ret[1] = <<>>

\* "(foo a b)" then "(PICK-UP A)" gave the one action "(pick-up a)"
C15_Witness ==
    /\ ExtractCalled
    /\ args.result = [stdout |-> <<LineFoo, LineUpper>>]
    /\ ret[1] = <<LinePickUp>>

\* the text fields of a payload
PayloadTexts(result) ==
    (IF "stdout" \in DOMAIN result THEN {result.stdout} ELSE {})
      \cup (IF "output" \in DOMAIN result /\ "plan" \in DOMAIN result.output
              THEN {result.output.plan} ELSE {})
      \cup (IF "output" \in DOMAIN result /\ "sas_plan" \in DOMAIN result.output
              THEN {result.output.sas_plan} ELSE {})
\* "caught signal" occurs in the text
HasSignal(text) ==
    \E l \in 1..Len(text) : \E i \in 1..(Len(text[l]) - 1) :
        text[l][i] = "caught" /\ text[l][i + 1] = "signal"
\* the payload with every text field that holds "caught signal" emptied
Blank(text) == IF HasSignal(text) THEN <<>> ELSE text
WithoutSignalTexts(result) ==
    [f \in DOMAIN result |->
       IF f = "stdout" THEN Blank(result.stdout)
       ELSE [g \in DOMAIN result.output |-> Blank(result.output[g])]]

(***************************************************************************)
(* C16, as claimed: when any text source of the payload (plan field,       *)
(* sas_plan field or stdout) contains "caught signal", extract_plan        *)
(* returns the empty sequence.                                             *)
(***************************************************************************)
C16_Claimed_AnySignalSourceGivesNoPlan ==
    (ExtractCalled /\ \E t \in PayloadTexts(args.result) : HasSignal(t)) => ret[1] = <<>>

(***************************************************************************)
(* C16, amended: a text source that contains "caught signal" yields no     *)
(* plan whatever else it holds, so extract_plan returns what it returns    *)
(* for the payload without that source: the empty sequence when every      *)
(* source holds the mark, the plan of another source otherwise.            *)
(***************************************************************************)
C16_SignalSourceYieldsNoPlan ==
    ExtractCalled =>
        /\ (\A t \in PayloadTexts(args.result) : HasSignal(t)) => ret[1] = <<>>
        /\ ret[1] = extract_plan(WithoutSignalTexts(args.result), args.planner, args.domain)

\* "(stack a b)" followed by "caught signal 15" gave no plan
C16_Witness ==
    /\ ExtractCalled
    /\ args.result = [stdout |-> <<LineStack, LineSignal>>]
    /\ args.domain = "blocksworld"
    /\ ret[1] = <<>>

\* the payload a stored artifact keeps in its 'raw' field
RawResult(d) == d.raw[1].result

Evaluated(snapshot) == IF "evaluated" \in DOMAIN snapshot THEN snapshot.evaluated ELSE 0
\* the current f-value of a snapshot, <<>> when it has none
CurrentF(snapshot) == IF "current_f" \in DOMAIN snapshot THEN <<snapshot.current_f>> ELSE <<>>
\* the step is a call of should_save_debug
DebugAsked == pc = "unit" /\ pc' = "unit_done" /\ caller' = "should_save_debug"

(***************************************************************************)
(* C18, as claimed: for every key, whatever the planner, the first         *)
(* snapshot of a key is saved; afterwards a snapshot is saved exactly when *)
(* its evaluated count exceeds that of the last saved snapshot of the key  *)
(* by more than 1000 or its current f-value differs from the last saved    *)
(* one; the stored snapshot changes exactly on the calls that return true. *)
(***************************************************************************)
C18_Claimed_SavedOnMeaningfulProgress ==
    [][ DebugAsked =>
          LET key == <<args'.planner, args'.domain, args'.problem>>
              snapshot == args'.progress_info
          IN  /\ ret'[1] =
                   IF key \notin DOMAIN last_debug_state THEN TRUE
                   ELSE \/ Evaluated(snapshot) - Evaluated(last_debug_state[key]) > 1000
                        \/ CurrentF(snapshot) # CurrentF(last_debug_state[key])
              /\ last_debug_state' =
                   IF ret'[1] THEN Put(last_debug_state, key, snapshot) ELSE last_debug_state
      ]_vars

\* a parenthesised line whose leading token is a valid action of the domain
VocabularyLine(line, domain) ==
    /\ Len(line) >= 3 /\ line[1] = "(" /\ line[Len(line)] = ")"
    /\ line[2] \in Vocabulary(domain)
    /\ \A i \in 2..(Len(line) - 1) : line[i] \notin {"(", ")"}
\* the response is "ok" and its result is a stdout of such lines, at least one
PlanOnStdout(r, domain) ==
    /\ Answered(r) /\ RespStatus(r) = "ok"
    /\ "result" \in DOMAIN r.json[1]
    /\ DOMAIN r.json[1].result = {"stdout"}
    /\ r.json[1].result.stdout # <<>>
    /\ \A l \in 1..Len(r.json[1].result.stdout) :
          VocabularyLine(r.json[1].result.stdout[l], domain)

(***************************************************************************)
(* C19: when the first poll response has status "ok" and its result is a   *)
(* stdout of parenthesised lines whose leading tokens are valid actions of *)
(* the domain, the call ends in Solved on that response: the success       *)
(* artifact is written, its plan lists the actions in line order and       *)
(* plan_length is their number.  For lama-first on blocksworld,            *)
(* "(pick-up a)" then "(stack a b)" gives plan_length 2 and that plan.     *)
(***************************************************************************)
C19_PlanOnFirstPollIsSolved ==
    [][ /\ (Polled /\ gets = 0 /\ PlanOnStdout(last_resp', args.domain)) =>
              /\ pc' = "returned" /\ outcome' = "Solved"
              /\ ret'[1].solved = TRUE
              /\ ret'[1].plan = last_resp'.json[1].result.stdout
              /\ ret'[1].plan_length = Len(last_resp'.json[1].result.stdout)
              /\ ArtifactName(args) \in DOMAIN results_dir'
              /\ results_dir'[ArtifactName(args)] = [kind |-> "json", data |-> ret'[1]]
        /\ (Polled /\ gets = 0 /\ args.planner = "lama-first" /\ args.domain = "blocksworld"
                   /\ Answered(last_resp') /\ RespStatus(last_resp') = "ok"
                   /\ Get(last_resp'.json[1], "result", EmptyDict)
                        = [stdout |-> << <<"(", "pick-up", "a", ")">>,
                                        <<"(", "stack", "a", "b", ")">> >>]) =>
              /\ outcome' = "Solved"
              /\ ret'[1].plan_length = 2
              /\ ret'[1].plan = << <<"(", "pick-up", "a", ")">>, <<"(", "stack", "a", "b", ")">> >>
      ]_vars

\* lama-first has solved blocksworld/problema_01_facil.pddl on its first poll
C19_Witness ==
    /\ pc = "returned" /\ outcome = "Solved" /\ gets = 1
    /\ args.planner = "lama-first" /\ args.domain = "blocksworld"
    /\ args.problem = Problema(<<"0", "1">>, "facil")
    /\ ret[1].plan_length = 2
    /\ ArtifactName(args) \in wrote

\* check_existing_result has been called alone, and the file of its key
CheckCalled == pc = "unit_done" /\ caller = "check_existing_result"
CheckedName == ResultFile(args.domain, args.planner, args.problem)
\* the file of the key is missing, cannot be read or parsed, or fails the test
NoGoodFile(dir, name) ==
    \/ name \notin DOMAIN dir
    \/ dir[name].kind \in {"unreadable", "garbage", "json_value", "json_mistyped"}
    \/ dir[name].kind = "json" /\ ~CachePasses(dir[name].data)

(***************************************************************************)
(* C20: check_existing_result never raises: for a missing file, a file     *)
(* that cannot be read or parsed, or parsed content of any shape that does *)
(* not pass the test, it returns (false, empty) and no error leaves it;    *)
(* and it leaves the results directory as it was.                          *)
(***************************************************************************)
C20_CheckNeverRaises ==
    CheckCalled =>
        /\ DOMAIN ret[1] = {"exists", "data"}
        /\ NoGoodFile(results_dir, CheckedName) => ret[1] = [exists |-> FALSE, data |-> <<>>]
        /\ results_dir = UnitResults

\* the check has answered (false, empty) for a file whose content is not a dict
C20_Witness ==
    /\ CheckCalled
    /\ CheckedName \in DOMAIN results_dir
    /\ results_dir[CheckedName].kind = "json_value"
    /\ ret[1] = [exists |-> FALSE, data |-> <<>>]

(***************************************************************************)
(* C21: within one call of run_experiment_with_extended_timeout at most    *)
(* one submission POST is issued: the count of POSTs of the call goes from *)
(* 0 to 1 at the submission step and never further, whatever the           *)
(* submission and the polls answer.                                        *)
(***************************************************************************)
C21_AtMostOneSubmission ==
    [][ /\ posts' <= 1
        /\ posts' > posts => (pc = "run" /\ posts = 0)
        /\ (pc \in {"polling", "returned"} /\ pc' \in {"polling", "returned"}) => posts' = posts
      ]_vars

\* a call has ended in Failed after a transient polling error, with one POST
C21_Witness ==
    /\ pc = "returned" /\ outcome = "Failed"
    /\ posts = 1 /\ gets = 2 /\ Len(poll_responses) = 1

\* the text of a source of the payload, empty when the payload has no such source
SourceText(result, name) ==
    IF name = "stdout" THEN Get(result, "stdout", <<>>)
    ELSE IF "output" \in DOMAIN result THEN Get(result.output, name, <<>>)
    ELSE <<>>
SourceOrder == <<"plan", "sas_plan", "stdout">>
\* what the parser makes of the k-th source
SourcePlan(k) ==
    IF SourceText(args.result, SourceOrder[k]) = <<>> THEN <<>>
    ELSE parse_plan_text(SourceText(args.result, SourceOrder[k]), args.domain, args.planner)
\* the payload with the sources after the k-th taken away
UpTo(result, k) ==
    IF k = 3 THEN result
    ELSE [output |-> [f \in DOMAIN result.output \cap {SourceOrder[i] : i \in 1..k} |->
                        result.output[f]]]

(***************************************************************************)
(* C24: extract_plan tries the sources in the order "plan" field,          *)
(* "sas_plan" field, stdout and returns the parse of the first source      *)
(* whose parse is not empty; what the later sources hold makes no          *)
(* difference to the value, and when no source yields a plan, or the       *)
(* payload has none, the value is the empty sequence.                      *)
(***************************************************************************)
C24_FirstYieldingSourceWins ==
    ExtractCalled =>
        /\ \A k \in 1..3 :
              (SourcePlan(k) # <<>> /\ \A j \in 1..(k - 1) : SourcePlan(j) = <<>>) =>
                  /\ ret[1] = SourcePlan(k)
                  /\ ret[1] = extract_plan(UpTo(args.result, k), args.planner, args.domain)
        /\ (\A k \in 1..3 : SourcePlan(k) = <<>>) => ret[1] = <<>>

\* the "plan" field gave nothing, the "sas_plan" field gave the plan, and stdout
\* would have given another one
C24_Witness ==
    /\ ExtractCalled
    /\ args.planner = "delfi" /\ args.domain = "blocksworld"
    /\ args.result = [output |-> [sas_plan |-> <<LinePickUp>>],
                      stdout |-> <<LineSolution, LineUnstack>>]
    /\ ret[1] = <<LinePickUp>>
    /\ SourcePlan(3) # <<>> /\ SourcePlan(3) # ret[1]

\* the call was for delfi, on a stdout of a prologue line and one line after it
AfterPrologue ==
    /\ ExtractCalled /\ args.planner = "delfi"
    /\ DOMAIN args.result = {"stdout"}
    /\ args.result.stdout \in UnitMarkerTexts
\* what the claim expects of the line after the prologue
ExpectedOfLine(line, domain) ==
    IF \E i \in 1..Len(line) : line[i] \in ColonTokens THEN <<>>
    ELSE IF line[1] = "("
      THEN IF lower(line[2]) \in Vocabulary(domain)
             THEN <<LowerSeq(line)>> ELSE <<>>
    ELSE IF \E i \in 1..Len(line) : lower(line[i]) \in Vocabulary(domain)
      THEN <<Wrap(LowerSeq(line))>>
    ELSE <<>>

(***************************************************************************)
(* C25, as claimed: for delfi each of the four prologue markers alone      *)
(* opens the plan region: after a line holding "Solution found!", "Plan    *)
(* length:", "Plan cost:" or "Actual search time:", a parenthesised        *)
(* vocabulary line and a line that is not parenthesised but holds a        *)
(* vocabulary token are turned into actions, and a line with a colon is    *)
(* skipped by the dialect parser.                                          *)
(***************************************************************************)
C25_Claimed_EachMarkerOpensRegion ==
    (AfterPrologue /\ args.result.stdout[2] # LineNumbered) =>
        ret[1] = ExpectedOfLine(args.result.stdout[2], args.domain)

\* the fields of the progress snapshot the controller holds
SnapshotFields(rd) == DOMAIN Get(rd, "progress_info", EmptyDict)

(***************************************************************************)
(* C26, as claimed: within one polling session the progress snapshot held  *)
(* by the controller never loses a field: whatever a poll answers, every   *)
(* field the snapshot had before the response it still has after it.       *)
(***************************************************************************)
C26_Claimed_SnapshotKeepsItsFields ==
    [][ (pc = "polling" /\ pc' \in {"polling", "returned"}) =>
            SnapshotFields(result_data) \subseteq SnapshotFields(result_data')
      ]_vars

\* the writes of the step just taken
NewWrites == SubSeq(written', Len(written) + 1, Len(written'))
\* the step writes a DEBUG snapshot and nothing else
DiagnosticWrite ==
    /\ Len(NewWrites) = 1 /\ NewWrites[1].dir = "debug" /\ NewWrites[1].name.kind = "DEBUG"
    /\ debug_dir' = debug_dir \cup {NewWrites[1].name}
\* the step writes the summary of the batch and nothing else
SummaryWrite == pc = "batch" /\ debug_dir' = debug_dir \cup {[kind |-> "run_summary"]}

(***************************************************************************)
(* C27: the results directory is written only by the step that ends a call *)
(* in Solved, and that step writes the returned result under the key's     *)
(* name; the debug directory alone receives the failure artifact (written  *)
(* by the step that ends the call in SubmitError, Failed or a caught       *)
(* error, holding the returned result), the timeout artifact (written by   *)
(* the step that ends it in TimedOut) and the DEBUG snapshots; a result is *)
(* written only by a step that ends the call; and a call that ends in      *)
(* Skipped or CacheHit leaves both directories as they were.               *)
(***************************************************************************)
C27_ArtifactsGoToTheirPlace ==
    [][ /\ results_dir' # results_dir =>
              /\ pc = "polling" /\ pc' = "returned" /\ outcome' = "Solved"
              /\ debug_dir' = debug_dir
              /\ results_dir' = Put(results_dir, ArtifactName(args), JsonFile(ret'[1]))
              /\ NewWrites = <<Write("results", ArtifactName(args), ret'[1])>>
        /\ debug_dir' # debug_dir =>
              /\ results_dir' = results_dir
              /\ \/ /\ pc' = "returned" /\ pc # "returned"
                    /\ outcome' \in {"SubmitError", "Failed", "Exception"}
                    /\ debug_dir' = debug_dir \cup {DebugFile("FAILED", args)}
                    /\ NewWrites = <<Write("debug", DebugFile("FAILED", args), ret'[1])>>
                 \/ /\ pc = "polling" /\ pc' = "returned" /\ outcome' = "TimedOut"
                    /\ Len(NewWrites) = 1 /\ NewWrites[1].dir = "debug"
                    /\ NewWrites[1].name.kind = "TIMEOUT"
                    /\ debug_dir' = debug_dir \cup {NewWrites[1].name}
                 \/ pc = "polling" /\ pc' = "polling" /\ DiagnosticWrite
                 \/ SummaryWrite
        /\ (pc' = "returned" /\ pc # "returned" /\ outcome' \in {"Skipped", "CacheHit"}) =>
              /\ results_dir' = results_dir /\ debug_dir' = debug_dir /\ written' = written
        /\ (pc \in {"run", "polling"} /\ pc' # "returned") =>
              \A i \in 1..Len(NewWrites) : NewWrites[i].name.kind = "DEBUG"
      ]_vars

\* one runner has left a success artifact, a failure artifact, a timeout artifact
\* and a DEBUG snapshot, each in its directory
C27_Witness ==
    /\ wrote # {}
    /\ \A k \in {"FAILED", "TIMEOUT", "DEBUG"} : \E f \in debug_dir : f.kind = k
    /\ \A f \in DOMAIN results_dir : f.kind = "RESULT"

\* the counter the claim assigns to an outcome of an experiment
CounterOf(o) ==
    IF o = "Solved" THEN "solved" ELSE IF o = "TimedOut" THEN "timeout" ELSE "failed"

(***************************************************************************)
(* C30, as claimed: the batch counts every experiment it has run under the *)
(* counter of its outcome: solved for Solved, timeout for an exhausted     *)
(* polling loop (TimedOut), failed for every other outcome (SubmitError,   *)
(* Failed, local or caught errors); so the three counters add up to the    *)
(* number of experiments run.                                              *)
(***************************************************************************)
C30_Claimed_CountersClassifyOutcomes ==
    [][ (pc = "returned" /\ caller = "batch" /\ pc' = "batch") =>
            /\ stats' = [stats EXCEPT ![CounterOf(outcome)] = @ + 1]
            /\ stats'.solved + stats'.failed + stats'.timeout = idx
      ]_vars

\* the terminal states the claim names, and the two it leaves out
ClaimedOutcomes == {"Skipped", "CacheHit", "Solved", "Failed", "TimedOut", "SubmitError"}
OtherOutcomes == {"LocalError", "Exception"}

(***************************************************************************)
(* C29, as claimed: every call of run_experiment_with_extended_timeout     *)
(* that has returned ended in one of Skipped, CacheHit, Solved, Failed,    *)
(* TimedOut or SubmitError.                                                *)
(***************************************************************************)
C29_Claimed_SixTerminalStates == pc = "returned" => outcome \in ClaimedOutcomes

(***************************************************************************)
(* C29, amended: every call terminates, in exactly one of Skipped,         *)
(* CacheHit, Solved, Failed, TimedOut, SubmitError, a local precondition   *)
(* error or a caught exception of the submission.  A poll is issued only   *)
(* while the elapsed time is below the timeout of the key, and once it is  *)
(* not below it the next step of the call is the return in TimedOut: a     *)
(* service that answers "ok" without a plan forever, or fails every poll,  *)
(* does not keep the loop running past the timeout.                        *)
(***************************************************************************)
C29_EveryCallTerminates ==
    /\ [](pc = "returned" => outcome \in ClaimedOutcomes \cup OtherOutcomes)
    /\ [][ /\ Polled => (pc = "polling" /\ TimeLeft)
           /\ (pc = "polling" /\ ~TimeLeft) => (pc' = "returned" /\ outcome' = "TimedOut")
           /\ (pc = "returned" /\ pc' = "returned") => outcome' = outcome
         ]_vars
    /\ (pc \in {"run", "polling"}) ~> (pc = "returned")

\* a call has ended in TimedOut after two polls that all failed
C29_Witness ==
    /\ pc = "returned" /\ outcome = "TimedOut"
    /\ gets = 2 /\ poll_responses = <<>>

\* ---------------------------------------------------------------------- C22
\* the DEBUG artifacts of the call, in the order of their writing
DebugWrites == SelectSeq(written, LAMBDA w : w.name.kind = "DEBUG")
\* the response of the poll just made was status "ok" with a result and no plan in it
OkWithoutPlan(r) ==
    /\ Answered(r)
    /\ StatusIs(r.json[1], {"ok"})
    /\ "result" \in DOMAIN r.json[1]
    /\ ~PlanFound(PlanOf(r.json[1]))

\* C22: a call writes at most 5 DEBUG artifacts, any two of them more than 30 seconds
\* apart, and each of them in a pass of the loop whose response was status "ok" with
\* no plan
C22_DebugSavesBounded ==
    /\ [](/\ Len(DebugWrites) <= max_debug_saves
          /\ \A i, j \in 1..Len(DebugWrites) :
                i < j => (DebugWrites[j].name.ts - DebugWrites[i].name.ts) * TimeUnit
                           > ProgressInterval)
    /\ [][Len(DebugWrites') > Len(DebugWrites)
            => (Polled /\ Len(DebugWrites') = Len(DebugWrites) + 1 /\ OkWithoutPlan(last_resp'))]_vars

\* five artifacts are written and the pass just made, more than 30 seconds after the
\* last progress message, found an f value that the last saved state does not have
C22_Witness ==
    /\ pc = "polling"
    /\ Len(DebugWrites) = max_debug_saves
    /\ debug_save_count = max_debug_saves
    /\ OkWithoutPlan(last_resp)
    /\ last_progress > DebugWrites[max_debug_saves].name.ts
    /\ poll_responses[Len(poll_responses)].time_elapsed = last_progress - start
    /\ GetDiffers(result_data.progress_info,
                  last_debug_state[<<args.planner, args.domain, args.problem>>], "current_f")

\* ---------------------------------------------------------------------- C23
\* the TIMEOUT artifact just written
TimeoutWrite == written[Len(written)].data
\* the response carried stdout
CarriesStdout(r) ==
    /\ Answered(r)
    /\ StatusIs(r.json[1], {"ok"})
    /\ "result" \in DOMAIN r.json[1]
    /\ "stdout" \in DOMAIN r.json[1].result
Snapshot(rd) == Get(rd, "progress_info", EmptyDict)

\* C23: poll_responses holds one record for each response received with HTTP 200, in
\* the order of arrival, and the snapshot of the call is that of the latest status
\* "ok" response that carried stdout; the TIMEOUT artifact holds the last 10 of these
\* records and this snapshot
C23_TimeoutArtifactIsRecent ==
    [][/\ (Polled /\ Answered(last_resp'))
          => poll_responses' = Append(poll_responses,
                                      PollRecord(last_resp'.json[1], now))
       /\ ~(Polled /\ Answered(last_resp')) => poll_responses' = poll_responses
       /\ (Polled /\ CarriesStdout(last_resp'))
          => Snapshot(result_data') = monitor_delfi_progress(last_resp'.json[1].result.stdout)
       /\ (pc = "polling" /\ ~(Polled /\ CarriesStdout(last_resp')))
          => Snapshot(result_data') = Snapshot(result_data)
       /\ (pc = "polling" /\ pc' = "returned" /\ outcome' = "TimedOut")
          => /\ Len(written') = Len(written) + 1
             /\ TimeoutWrite'.error = "TIMEOUT"
             /\ Len(TimeoutWrite'.last_poll_responses) <= LastPollsKept
             /\ \E k \in 0..Len(poll_responses) :
                   /\ k + Len(TimeoutWrite'.last_poll_responses) = Len(poll_responses)
                   /\ \A i \in 1..Len(TimeoutWrite'.last_poll_responses) :
                         TimeoutWrite'.last_poll_responses[i] = poll_responses[k + i]
                   /\ k > 0 => Len(TimeoutWrite'.last_poll_responses) = LastPollsKept
             /\ TimeoutWrite'.final_progress = Snapshot(result_data)]_vars

\* the call timed out after more than 10 recorded responses; the last response was
\* "ok" without stdout, the artifact reports f = 8 and an earlier snapshot had f = 7
C23_Witness ==
    /\ pc = "returned"
    /\ outcome = "TimedOut"
    /\ Len(poll_responses) > LastPollsKept
    /\ last_resp = OkNoStdout
    /\ TimeoutWrite.error = "TIMEOUT"
    /\ Len(TimeoutWrite.last_poll_responses) = LastPollsKept
    /\ TimeoutWrite.final_progress # EmptyDict
    /\ TimeoutWrite.final_progress.current_f = 8
    /\ \E i \in 1..Len(DebugWrites) : Get(DebugWrites[i].data.progress, "current_f", 0) = 7

\* ---------------------------------------------------------------------- C28
\* the result the call returned
Returned == ret[1]
\* C28 as claimed: a result returned with an error has solved = False, an empty plan
\* and plan_length 0, also when a results file could not be written
C28_Claimed_ErrorMeansUnsolved ==
    (pc = "returned" /\ Get(Returned, "error", None) # None)
      => /\ Get(Returned, "solved", FALSE) = FALSE
         /\ Get(Returned, "plan", <<>>) = <<>>
         /\ Get(Returned, "plan_length", 0) = 0
====
